---------------------------- MODULE Spec2Model ----------------------------
(*************************************************************************)
(* GentlyOS firewall-core: the skill registry, the generic execute flow  *)
(* of the nine detectors and the aggregate scans (scan_all, scan_path);  *)
(* the genesis ledger program; the desktop backend's XOR chain.          *)
(*                                                                       *)
(* Abstractions.  A confidence (f32 in the source) is an integer number  *)
(* of hundredths, rounded down; every literal confidence of the source   *)
(* is a whole number of hundredths and a rounded-down value passes the   *)
(* threshold exactly when the exact quotient does.  File content is the  *)
(* set of regular-expression matches it produces ("signals") plus the    *)
(* tokens whose values the detectors compute with.  A HashMap / HashSet  *)
(* iteration order is a nondeterministic choice.  A panic is an outcome  *)
(* of the call it ends: the call does not return.                        *)
(*                                                                       *)
(* Spec runs the registry operations and scan_path one call at a time;   *)
(* ConcSpec interleaves the steps of concurrent invoke / scan_all calls  *)
(* on one shared registry.  RegistrySpec builds registries and exports   *)
(* their schemas; FileSpec invokes the cipher, network, audio and stego  *)
(* detectors on one file over its possible contents; WalkSpec invokes    *)
(* the default registry on directories with symbolic links, unreadable   *)
(* files and files below the first level; ShotSpec invokes the           *)
(* filesystem detector on directories of image files.  LedgerSpec runs   *)
(* the instructions of the genesis program one at a time; DesktopSpec    *)
(* interleaves the commands of the desktop backend.                      *)
(*************************************************************************)
EXTENDS Integers, Sequences, FiniteSets, TLC

(***************************** bounds ************************************)
\* Largest registry a caller builds with register() from SkillRegistry::new().
MaxRegistered == 2
\* Concurrent callers sharing one registry.
MaxCallers == 2

(***************************** Severity **********************************)
Info == 0
Low == 1
Medium == 2
High == 3
Critical == 4

\* Skill::confidence_threshold default body, in hundredths.
DefaultThreshold == 70
\* SvgDetector::confidence_threshold override, in hundredths.
SvgThreshold == 70
\* A confidence of 1.0, in hundredths.
ConfOne == 100

(***************************** helpers ***********************************)
Range(s) == {s[i] : i \in 1..Len(s)}

RECURSIVE SeqSum(_)
SeqSum(s) == IF s = <<>> THEN 0 ELSE Head(s) + SeqSum(Tail(s))

RECURSIVE Flatten(_)
Flatten(ss) == IF ss = <<>> THEN <<>> ELSE Head(ss) \o Flatten(Tail(ss))

\* All orders in which the elements of a finite set can be iterated.
RECURSIVE Orders(_)
Orders(S) ==
    IF S = {} THEN {<<>>}
    ELSE UNION {{<<x>> \o o : o \in Orders(S \ {x})} : x \in S}

\* Concatenations of one choice from each set of sequences.
CatSets(A, B) == {a \o b : a \in A, b \in B}

RECURSIVE CatAll(_)
CatAll(sets) == IF sets = <<>> THEN {<<>>}
                ELSE CatSets(Head(sets), CatAll(Tail(sets)))

Min(a, b) == IF a <= b THEN a ELSE b

(***************************** Finding ***********************************)
Finding(ft, val, conf, loc, sev, pat) ==
    [finding_type |-> ft, value |-> val, confidence |-> conf,
     location |-> loc, severity |-> sev, metadata |-> pat]

(***************************** SkillOutput *******************************)
\* The aggregate confidence is kept as the exact quotient num / den.
with_findings_empty_one(findings) ==
    [findings |-> findings,
     confidence |-> [num |-> SeqSum([i \in 1..Len(findings) |->
                                        findings[i].confidence]),
                     den |-> IF findings = <<>> THEN 1 ELSE Len(findings)],
     complete |-> TRUE]

with_findings(findings) ==
    [findings |-> findings,
     confidence |-> IF findings = <<>>
                    THEN [num |-> ConfOne, den |-> 1]
                    ELSE [num |-> SeqSum([i \in 1..Len(findings) |->
                                             findings[i].confidence]),
                          den |-> Len(findings)],
     complete |-> TRUE]

Ok(output) == [ok |-> TRUE, output |-> output, err |-> "none", msg |-> "none"]

\* A panic: the call does not return.  No function of the crate catches an
\* unwind, so a panic raised inside a detector ends analyze_file,
\* analyze_directory, execute, invoke, scan_all and scan_path alike.  It is
\* carried through the finding vectors as a mark.
Unwind ==
    Finding("<panic>", <<"byte index is not a char boundary">>, 0, "", 0, "panic")
panicked(findings) == \E i \in 1..Len(findings) : findings[i] = Unwind
Unwound ==
    [ok |-> FALSE, output |-> [findings |-> <<>>,
                               confidence |-> [num |-> 0, den |-> 1],
                               complete |-> FALSE],
     err |-> "panic", msg |-> "byte index is not a char boundary"]
Err(kind, msg) == [ok |-> FALSE, output |-> with_findings(<<>>),
                   err |-> kind, msg |-> msg]


(***************************** the scanned tree **************************)
(* The host filesystem as the detectors see it.  The layout is fixed,    *)
(*     /t  (directory)   /t/a  /t/b  (files)   /t/d  (directory)         *)
(*     /t/d/c  (file)                                                    *)
(* and the variable part is the content of the three files and whether   *)
(* /t/d can be opened (read_dir on it fails when dOk is FALSE, which     *)
(* WalkDir reports as an Err item in the middle of the walk), and the    *)
(* symbolic links /t/l1, /t/l2 that /t may hold, in the order read_dir   *)
(* yields them.                                                          *)
(*************************************************************************)
Content(utf8, ext, base, sig, ips, ws, nums, guids) ==
    [utf8 |-> utf8, ext |-> ext, base |-> base, sig |-> sig, ips |-> ips,
     ws |-> ws, nums |-> nums, guids |-> guids, grids |-> <<>>,
     data |-> <<>>]

(* File bytes (fs::read) are kept run-length encoded: the run <<b, n>>   *)
(* stands for n consecutive bytes of value b.                            *)
PngMagic == <<<<137, 1>>, <<80, 1>>, <<78, 1>>, <<71, 1>>>>
\* the IEND chunk: zero length, the type "IEND", four CRC bytes
IendChunk == <<<<0, 4>>, <<73, 1>>, <<69, 1>>, <<78, 1>>, <<68, 1>>,
               <<174, 1>>, <<66, 1>>, <<96, 1>>, <<130, 1>>>>

C_plain == Content(TRUE, "txt", "notes.txt", {}, <<>>, 0, <<>>, <<>>)
\* microphone token only
C_mic == Content(TRUE, "js", "rec.js", {"mic", "sched"}, <<>>, 0, <<>>, <<>>)
\* microphone + network keyword + clipboard + keyboard/HID tokens
C_spy == Content(TRUE, "js", "spy.js",
                 {"mic", "net_kw", "clipboard", "hid", "keyboard", "loop"},
                 <<>>, 0, <<>>, <<>>)
\* dotted quads and a port
C_ips == Content(TRUE, "txt", "hosts.txt", {"port_4444"},
                 <<<<1, 2, 3, 4>>, <<127, 0, 0, 1>>, <<5, 6, 7, 8>>, <<10, 1, 2, 3>>,
                   <<1, 2, 3, 4>>>>,
                 0, <<>>, <<>>)
\* numeric seeds, sequence keywords, GUIDs
C_seed == Content(TRUE, "rs", "seed.rs", {"golden", "weyl", "ident_cipher"},
                  <<>>, 0, <<<<1, 618033>>, <<1, 618900>>, <<1, 234567>>>>,
                  <<5, 5, 5, 5, 7>>)
\* trailing-whitespace channel
C_ws80 == Content(TRUE, "txt", "ws.txt", {}, <<>>, 80, <<>>, <<>>)
C_ws30 == Content(TRUE, "txt", "ws2.txt", {"homoglyph"}, <<>>, 30, <<>>, <<>>)
\* a PNG with bytes after IEND: not valid UTF-8
C_png ==
    [Content(FALSE, "png", "screenshot.png", {}, <<>>, 0, <<>>, <<>>)
        EXCEPT !.data = PngMagic \o <<<<13, 8>>>> \o IendChunk \o <<<<65, 3>>>>]
\* an SVG with a script tag and a plain foreignObject
C_svg == Content(TRUE, "svg", "logo.svg", {"svg_script", "svg_foreign"},
                 <<>>, 0, <<>>, <<>>)
\* an SVG whose <script> element is longer than 100 bytes, with byte 100
\* inside a multi-byte character
C_svgcut == Content(TRUE, "svg", "wide.svg", {"svg_script", "script_cut_in_char"},
                    <<>>, 0, <<>>, <<>>)
\* a secrets file
C_env == Content(TRUE, "", ".env", {"if_date", "new_date", "date_literal", "sleep_long"},
                 <<>>, 0, <<>>, <<>>)

\* a file that cannot be opened for reading
C_locked == Content(FALSE, "txt", "locked.txt", {}, <<>>, 0, <<>>, <<>>)

\* HID/USB tokens and no keyboard simulation API
C_hid == Content(TRUE, "py", "usb.py", {"hid"}, <<>>, 0, <<>>, <<>>)
ContentsA == {C_plain, C_spy, C_ips, C_seed, C_hid}
ContentsB == {C_plain, C_mic, C_ws80, C_ws30, C_png, C_svgcut, C_hid}
ContentsC == {C_svg, C_env}

\* The trees explored: a base tree and every tree that differs from it in
\* one file or in the readability of /t/d.
BaseTree ==
    [a |-> C_spy, b |-> C_mic, c |-> C_svg, dOk |-> TRUE, links |-> <<>>,
     more |-> <<>>]
Trees ==
    {[BaseTree EXCEPT !.a = x] : x \in ContentsA}
    \cup {[BaseTree EXCEPT !.b = x] : x \in ContentsB}
    \cup {[BaseTree EXCEPT !.c = x] : x \in ContentsC}
    \cup {[BaseTree EXCEPT !.dOk = x] : x \in BOOLEAN}

Root == "/t"
Paths == {"/t", "/t/a", "/t/b", "/t/d", "/t/d/c"}
Dirs == {"/t", "/t/d"}
Missing == "/missing"

\* Path::exists
exists(p) == p \in Paths
\* Path::is_file
is_file(p) == p \in Paths \ Dirs

content_of(t, p) ==
    CASE p = "/t/a" -> t.a
      [] p = "/t/b" -> t.b
      [] p = "/t/d/c" -> t.c
      [] OTHER -> C_plain

\* A symbolic link of /t: its path, the target read_link returns, and
\* whether read_link succeeds.
L1(target, rl) == [path |-> "/t/l1", base |-> "l1", target |-> target, read_link |-> rl]
L2(target, rl) == [path |-> "/t/l2", base |-> "l2", target |-> target, read_link |-> rl]

\* Path::is_symlink
is_symlink(t, p) == \E i \in 1..Len(t.links) : t.links[i].path = p
link_at(t, p) == t.links[CHOOSE i \in 1..Len(t.links) : t.links[i].path = p]

\* Existing paths outside the scanned tree.
Outside == {"/etc/passwd"}

\* fs::canonicalize: every symbolic link on the way is resolved; it fails
\* on a missing target and on a chain of links that never ends.
canonicalize(t, p) ==
    LET RECURSIVE resolve(_, _)
        resolve(q, hops) ==
            IF q \in Paths \cup Outside THEN [ok |-> TRUE, path |-> q]
            ELSE IF is_symlink(t, q) /\ hops > 0
            THEN resolve(link_at(t, q).target, hops - 1)
            ELSE [ok |-> FALSE, path |-> ""]
    IN resolve(p, Len(t.links))

(* Further directories of /t (t.more, in the order read_dir yields them), *)
(* each with its files in read_dir order.  A directory or file name is   *)
(* a sequence of tokens, the pieces the name is matched by: the name is  *)
(* their concatenation.                                                  *)
RECURSIVE Join(_)
Join(tokens) == IF tokens = <<>> THEN "" ELSE Head(tokens) \o Join(Tail(tokens))

Dir(name, files) == [name |-> name, files |-> files]
dir_path(d) == "/t/" \o Join(d.name)
file_path(d, f) == dir_path(d) \o "/" \o Join(f)

\* The paths below the further directories, each with its components
\* below /t.
more_paths(t) ==
    UNION {{[path |-> dir_path(t.more[i]), comps |-> <<t.more[i].name>>]}
           \cup {[path |-> file_path(t.more[i], t.more[i].files[j]),
                  comps |-> <<t.more[i].name, t.more[i].files[j]>>]
                    : j \in 1..Len(t.more[i].files)}
             : i \in 1..Len(t.more)}

is_more(t, p) == \E m \in more_paths(t) : m.path = p

\* The components of a path below /t, as tokens.
components(t, p) ==
    IF is_more(t, p) THEN (CHOOSE m \in more_paths(t) : m.path = p).comps
    ELSE <<>>

\* Path::file_name of a directory of the layout, of a symbolic link, of a
\* further entry, and of a file (its content record carries the basename).
file_name(t, p) ==
    CASE p = "/t" -> "t"
      [] p = "/t/d" -> "d"
      [] is_symlink(t, p) -> link_at(t, p).base
      [] is_more(t, p) -> Join(components(t, p)[Len(components(t, p))])
      [] OTHER -> content_of(t, p).base

\* One item of a WalkDir iteration: Ok(DirEntry) or Err.
Entry(p, isf, depth) == [ok |-> TRUE, path |-> p, is_file |-> isf, depth |-> depth]
WalkErr == [ok |-> FALSE, path |-> "/t/d", is_file |-> FALSE, depth |-> 2]

\* WalkDir::new(p).max_depth(maxDepth).into_iter(): the items in the order
\* the walk yields them (a directory before its entries).  follow_links is
\* false in every walk of the crate: a symbolic link is yielded as an entry
\* that is neither a file nor a directory, and is not descended into.
WalkDir(t, p, maxDepth) ==
    IF p = "/t" THEN
        <<Entry("/t", FALSE, 0)>>
        \o (IF maxDepth >= 1
            THEN <<Entry("/t/a", TRUE, 1), Entry("/t/b", TRUE, 1),
                   Entry("/t/d", FALSE, 1)>>
            ELSE <<>>)
        \o (IF maxDepth >= 2
            THEN (IF t.dOk THEN <<Entry("/t/d/c", TRUE, 2)>> ELSE <<WalkErr>>)
            ELSE <<>>)
        \o (IF maxDepth >= 1
            THEN [i \in 1..Len(t.links) |-> Entry(t.links[i].path, FALSE, 1)]
            ELSE <<>>)
        \o (IF maxDepth >= 1
            THEN Flatten([i \in 1..Len(t.more) |->
                    <<Entry(dir_path(t.more[i]), FALSE, 1)>>
                    \o (IF maxDepth >= 2
                        THEN [j \in 1..Len(t.more[i].files) |->
                                Entry(file_path(t.more[i], t.more[i].files[j]),
                                      TRUE, 2)]
                        ELSE <<>>)])
            ELSE <<>>)
    ELSE IF p = "/t/d" THEN
        <<Entry("/t/d", FALSE, 0)>>
        \o (IF maxDepth >= 1
            THEN (IF t.dOk THEN <<Entry("/t/d/c", TRUE, 1)>> ELSE <<WalkErr>>)
            ELSE <<>>)
    ELSE <<Entry(p, TRUE, 0)>>

\* WalkDir's default max_depth (usize::MAX), capped at the depth of the layout.
TreeDepth == 2

\* .filter_map(|e| e.ok()): the Err items are dropped silently.
filter_ok(items) == SelectSeq(items, LAMBDA e : e.ok)

\* fs::read_to_string(path).is_ok()
read_to_string_ok(t, p) == is_file(p) /\ content_of(t, p).utf8


(***************************** detectors: shared shape *******************)
\* One finding when the signal (a regular-expression match or a computed
\* condition of the source) is present in the content.
When(cond, f) == IF cond THEN <<f>> ELSE <<>>
Has(c, s) == s \in c.sig

(***************************** CipherDetector ****************************)
(* A u64 that may exceed the 32-bit model integers is kept as the pair   *)
(* <<hi, lo>> of its value: hi * 10^6 + lo, with 0 <= lo < 10^6.         *)
big_of(n) == <<n \div 1000000, n % 1000000>>
big_le(x, y) == x[1] < y[1] \/ (x[1] = y[1] /\ x[2] <= y[2])
big_add(x, n) ==
    <<x[1] + (n \div 1000000) + ((x[2] + (n % 1000000)) \div 1000000),
      (x[2] + (n % 1000000)) % 1000000>>
\* x * k for a small factor k
big_mul(x, k) == <<(x[1] * k) + ((x[2] * k) \div 1000000), (x[2] * k) % 1000000>>
\* The decimal digits of x.
big_string(x) ==
    LET pad(n) == CASE n < 10 -> "00000" \o ToString(n)
                    [] n < 100 -> "0000" \o ToString(n)
                    [] n < 1000 -> "000" \o ToString(n)
                    [] n < 10000 -> "00" \o ToString(n)
                    [] n < 100000 -> "0" \o ToString(n)
                    [] OTHER -> ToString(n)
    IN IF x[1] = 0 THEN ToString(x[2]) ELSE ToString(x[1]) \o pad(x[2])

\* u64::abs_diff
abs_diff(x, y) ==
    LET hi == IF big_le(y, x) THEN x ELSE y
        lo == IF big_le(y, x) THEN y ELSE x
    IN IF hi[2] >= lo[2] THEN <<hi[1] - lo[1], hi[2] - lo[2]>>
       ELSE <<hi[1] - lo[1] - 1, hi[2] + 1000000 - lo[2]>>

\* KNOWN_CONSTANTS, each with `(const_val * scale) as u64` for the seven
\* SCALES: the f64 product, truncated.
KNOWN_CONSTANTS ==
    <<
       [name |-> "phi",
        scaled |-> <<<<0, 1618>>, <<1, 618033>>, <<16, 180339>>, <<161, 803398>>, <<1618, 33988>>, <<16180, 339887>>, <<1618033, 988749>>>>],
       [name |-> "phi_minus_1",
        scaled |-> <<<<0, 618>>, <<0, 618033>>, <<6, 180339>>, <<61, 803398>>, <<618, 33988>>, <<6180, 339887>>, <<618033, 988749>>>>],
       [name |-> "pi",
        scaled |-> <<<<0, 3141>>, <<3, 141592>>, <<31, 415926>>, <<314, 159265>>, <<3141, 592653>>, <<31415, 926535>>, <<3141592, 653589>>>>],
       [name |-> "e",
        scaled |-> <<<<0, 2718>>, <<2, 718281>>, <<27, 182818>>, <<271, 828182>>, <<2718, 281828>>, <<27182, 818284>>, <<2718281, 828459>>>>],
       [name |-> "sqrt2",
        scaled |-> <<<<0, 1414>>, <<1, 414213>>, <<14, 142135>>, <<141, 421356>>, <<1414, 213562>>, <<14142, 135623>>, <<1414213, 562373>>>>],
       [name |-> "sqrt3",
        scaled |-> <<<<0, 1732>>, <<1, 732050>>, <<17, 320508>>, <<173, 205080>>, <<1732, 50807>>, <<17320, 508075>>, <<1732050, 807568>>>>],
       [name |-> "sqrt5",
        scaled |-> <<<<0, 2236>>, <<2, 236067>>, <<22, 360679>>, <<223, 606797>>, <<2236, 67977>>, <<22360, 679774>>, <<2236067, 977499>>>>],
       [name |-> "ln2",
        scaled |-> <<<<0, 693>>, <<0, 693147>>, <<6, 931471>>, <<69, 314718>>, <<693, 147180>>, <<6931, 471805>>, <<693147, 180559>>>>],
       [name |-> "ln10",
        scaled |-> <<<<0, 2302>>, <<2, 302585>>, <<23, 25850>>, <<230, 258509>>, <<2302, 585092>>, <<23025, 850929>>, <<2302585, 92994>>>>],
       [name |-> "euler_gamma",
        scaled |-> <<<<0, 577>>, <<0, 577215>>, <<5, 772156>>, <<57, 721566>>, <<577, 215664>>, <<5772, 156649>>, <<577215, 664901>>>>] >>

\* SCALES, each with its JSON rendering.
SCALES ==
    << [e |-> "1e3", v |-> <<0, 1000>>], [e |-> "1e6", v |-> <<1, 0>>],
       [e |-> "1e7", v |-> <<10, 0>>], [e |-> "1e8", v |-> <<100, 0>>],
       [e |-> "1e9", v |-> <<1000, 0>>], [e |-> "1e10", v |-> <<10000, 0>>],
       [e |-> "1e12", v |-> <<1000000, 0>>] >>

\* `(scale / 1000.0) as u64`; it fits a model integer for every scale.
tolerance(j) == (SCALES[j].v[1] * 1000) + (SCALES[j].v[2] \div 1000)

\* The (constant, scale) pairs, in the order of the two nested loops.
ConstScalePairs ==
    Flatten([i \in 1..Len(KNOWN_CONSTANTS) |->
                [j \in 1..Len(SCALES) |-> <<i, j>>]])

\* 1.0 - diff / (tolerance + 1.0), in hundredths rounded down: the number
\* of hundredths j with j / 100 <= (tolerance + 1 - diff) / (tolerance + 1).
seed_confidence(diff, tol) ==
    Cardinality({j \in 1..ConfOne :
                    big_le(big_mul(big_of(tol + 1), j),
                           big_mul(big_of(tol + 1 - diff), ConfOne))})

\* For each constant and scale, 1 when the product const * scale has a
\* fractional part of one half or more.
FractionHalfOrMore ==
    <<
       <<0, 1, 1, 1, 1, 0, 1>>,
       <<0, 1, 1, 1, 1, 0, 1>>,
       <<1, 1, 1, 0, 1, 1, 1>>,
       <<0, 1, 0, 1, 0, 1, 0>>,
       <<0, 1, 1, 0, 0, 1, 0>>,
       <<0, 1, 0, 1, 1, 1, 1>>,
       <<0, 1, 1, 1, 0, 1, 1>>,
       <<0, 0, 1, 0, 1, 1, 1>>,
       <<1, 0, 1, 0, 1, 1, 0>>,
       <<0, 1, 1, 0, 1, 0, 1>> >>

\* const * scale rounded to the nearest integer.
rounded(i, j) == big_add(KNOWN_CONSTANTS[i].scaled[j], FractionHalfOrMore[i][j])

\* A match against the rounded products.
check_constant_rounded(value) ==
    LET hit(pr) == big_le(abs_diff(value, rounded(pr[1], pr[2])),
                          big_of(tolerance(pr[2])))
        hits == SelectSeq(ConstScalePairs, hit)
    IN  IF hits = <<>> THEN [some |-> FALSE, name |-> "", scale |-> "", confidence |-> 0]
        ELSE LET pr == Head(hits)
                 d == abs_diff(value, rounded(pr[1], pr[2]))
             IN [some |-> TRUE, name |-> KNOWN_CONSTANTS[pr[1]].name,
                 scale |-> SCALES[pr[2]].e,
                 confidence |-> seed_confidence((d[1] * 1000000) + d[2],
                                                tolerance(pr[2]))]

\* The first (constant, scale) pair of the loops within tolerance.
check_constant(value) ==
    LET hit(pr) == big_le(abs_diff(value, KNOWN_CONSTANTS[pr[1]].scaled[pr[2]]),
                          big_of(tolerance(pr[2])))
        hits == SelectSeq(ConstScalePairs, hit)
    IN  IF hits = <<>> THEN [some |-> FALSE, name |-> "", scale |-> "", confidence |-> 0]
        ELSE LET pr == Head(hits)
                 d == abs_diff(value, KNOWN_CONSTANTS[pr[1]].scaled[pr[2]])
             IN [some |-> TRUE, name |-> KNOWN_CONSTANTS[pr[1]].name,
                 scale |-> SCALES[pr[2]].e,
                 confidence |-> seed_confidence((d[1] * 1000000) + d[2],
                                                tolerance(pr[2]))]

\* c.nums: the values of the tokens number_regex captures (6 to 12
\* digits, so every value parses as u64 and is below 10^12).
detect_math_constants(p, c) ==
    Flatten([i \in 1..Len(c.nums) |->
        LET m == check_constant(c.nums[i])
        IN When(m.some,
                Finding("math_constant_seed",
                        <<big_string(c.nums[i]), m.name, m.scale>>,
                        m.confidence, p, High,
                        "Mathematical constant used as seed"))])

(* An unsigned integer of a dimension token is kept as the set of the     *)
(* positions of its one bits: 0 is {}, 1 is {0}, 100 is {2, 5, 6}.       *)
\* The width of u64.
U64Bits == 64

bit_shift(x, k) == {i + k : i \in x}

RECURSIVE bit_add(_, _)
bit_add(x, y) ==
    IF y = {} THEN x
    ELSE bit_add((x \cup y) \ (x \cap y), bit_shift(x \cap y, 1))

\* x * y, exact
RECURSIVE bit_mul(_, _)
bit_mul(x, y) ==
    IF y = {} THEN {}
    ELSE LET b == CHOOSE b \in y : TRUE
         IN bit_add(bit_shift(x, b), bit_mul(x, y \ {b}))

\* The number as text: a sum of powers of two, or "0".
RECURSIVE bit_string(_)
bit_string(x) ==
    IF x = {} THEN "0"
    ELSE LET b == CHOOSE b \in x : \A i \in x : i <= b
         IN "2^" \o ToString(b)
            \o (IF x = {b} THEN "" ELSE "+" \o bit_string(x \ {b}))

\* str::parse::<u64>().is_ok(): the digits denote a value below 2^64.
parses_u64(x) == \A i \in x : i < U64Bits

\* n - 1 for n > 0
bit_dec(n) ==
    LET b == CHOOSE b \in n : \A i \in n : b <= i
    IN (n \ {b}) \cup {i \in 0..U64Bits : i < b}

\* n > 0 && (n & (n - 1)) == 0
is_power_of_2(n) == n # {} /\ (n \cap bit_dec(n)) = {}

\* dims.iter().product() over u64: the exact product of the values, and
\* whether a multiplication on the way left the 64 bits.
product(dims) ==
    LET RECURSIVE go(_, _, _)
        go(i, acc, over) ==
            IF i > Len(dims) THEN [value |-> acc, overflow |-> over]
            ELSE LET m == bit_mul(acc, dims[i])
                 IN go(i + 1, {b \in m : b < U64Bits},
                       over \/ ~parses_u64(m))
    IN go(1, {0}, FALSE)

\* c.grids: the tokens dimension_regex matches, each the values of its two
\* or three dimension captures.  The possible outcomes: on an overflowing
\* product a build with overflow checks panics and a build without them
\* keeps the low 64 bits.
detect_grid_patterns(p, c) ==
    CatAll([g \in 1..Len(c.grids) |->
        LET dims == SelectSeq(c.grids[g], parses_u64)
            total == product(dims)
            found == <<Finding("power2_grid",
                               [i \in 1..Len(dims) |-> bit_string(dims[i])]
                               \o <<"total_cells", bit_string(total.value)>>,
                               90, p, Medium, "Power-of-2 grid structure")>>
        IN IF \A i \in 1..Len(dims) : is_power_of_2(dims[i])
           THEN (IF total.overflow THEN {found, <<Unwind>>} ELSE {found})
           ELSE {<<>>}])

detect_self_reference(p, c) ==
    When(Has(c, "selfhash_md5"),
         Finding("self_referencing_hash", <<"md5">>, 99, p, Critical,
                 "Self-referencing MD5 hash"))
    \o When(Has(c, "selfhash_sha256"),
            Finding("self_referencing_hash", <<"sha256">>, 99, p, Critical,
                    "Self-referencing SHA256 hash"))

test_moduli == <<64, 256, 1024, 131072>>

\* The possible outcomes: max_by_key over a HashMap returns any of the most
\* common residues when several tie.
detect_guid_patterns(p, c) ==
    IF Len(c.guids) < 3 THEN {<<>>}
    ELSE CatAll([k \in 1..Len(test_moduli) |->
        LET modulus == test_moduli[k]
            values == [i \in 1..Len(c.guids) |-> c.guids[i] % modulus]
            cnt(v) == Cardinality({i \in 1..Len(values) : values[i] = v})
            best == {v \in Range(values) :
                        \A w \in Range(values) : cnt(w) <= cnt(v)}
        IN {When(cnt(v) * 10 > 3 * Len(values),
                 Finding("guid_modular_correlation",
                         <<ToString(modulus), ToString(v), ToString(cnt(v)),
                           ToString(Len(c.guids))>>,
                         (cnt(v) * ConfOne) \div Len(values), p, High,
                         "GUID modular correlation")) : v \in best}])

\* sequence_keywords, a HashMap: keyword -> sequence type.
sequence_keywords ==
    [golden |-> "weyl_golden", halton |-> "halton", sobol |-> "sobol",
     quasi |-> "quasi_random", weyl |-> "weyl"]

\* The possible outcomes: the keyword map is iterated in hash order.
detect_sequence_patterns(p, c) ==
    LET matched == {k \in DOMAIN sequence_keywords : Has(c, k)}
        idents == When(Has(c, "ident_cipher"),
                       Finding("cipher_hint_identifier", <<"cipher_key">>, 70, p, Low,
                               "Cipher hint in identifier"))
    IN {[i \in 1..Len(o) |->
            Finding("sequence_indicator", <<o[i], sequence_keywords[o[i]]>>,
                    70, p, Medium, "Low-discrepancy sequence indicator")]
        \o idents : o \in Orders(matched)}

cipher_analyze_file(t, p) ==
    IF read_to_string_ok(t, p)
    THEN LET c == content_of(t, p)
         IN CatAll(<< {detect_math_constants(p, c)},
                      detect_grid_patterns(p, c),
                      {detect_self_reference(p, c)},
                      detect_guid_patterns(p, c),
                      detect_sequence_patterns(p, c) >>)
    ELSE {<<>>}


(***************************** file bytes ********************************)
\* data.len()
data_len(d) == SeqSum([i \in 1..Len(d) |-> d[i][2]])

\* data[k], k counted from 0
RECURSIVE byte_at(_, _)
byte_at(d, k) ==
    IF k < Head(d)[2] THEN Head(d)[1] ELSE byte_at(Tail(d), k - Head(d)[2])

\* data.starts_with(pat)
starts_with(d, pat) ==
    /\ data_len(d) >= Len(pat)
    /\ \A i \in 1..Len(pat) : byte_at(d, i - 1) = pat[i]

\* The offsets k where the window data[k .. k + pat.len()] equals pat.
windows(d, pat) ==
    {k \in 0..(data_len(d) - Len(pat)) :
        \A i \in 1..Len(pat) : byte_at(d, k + i - 1) = pat[i]}

\* Iterator::position / rposition over the windows: the least / greatest
\* matching offset, as a set with at most one element (empty for None).
position(d, pat) ==
    {k \in windows(d, pat) : \A j \in windows(d, pat) : k <= j}

rposition(d, pat) ==
    {k \in windows(d, pat) : \A j \in windows(d, pat) : j <= k}

\* data[from ..] cut to at most count bytes
RECURSIVE slice(_, _, _)
slice(d, from, count) ==
    IF d = <<>> \/ count = 0 THEN <<>>
    ELSE LET b == Head(d)[1]
             n == Head(d)[2]
         IN IF from >= n THEN slice(Tail(d), from - n, count)
            ELSE LET m == Min(n - from, count)
                 IN <<<<b, m>>>> \o slice(Tail(d), 0, count - m)

(***************************** StegoDetector *****************************)
\* The finding for bytes after the end marker that ends at end_pos.
eof_finding(p, data, file_type, end_pos, pattern) ==
    When(end_pos < data_len(data),
         Finding("eof_hidden_data",
                 <<file_type, data_len(data) - end_pos, end_pos>>,
                 90, p, High, pattern))

\* The end of the PNG taken right after the IEND signature, without its CRC.
png_end_no_crc(pos) == pos + 8

\* let iend_pos = pos + 12; // IEND + CRC
png_end(pos) == pos + 12

\* fs::read succeeds on a file that is not text; a file that cannot be
\* opened has no bytes.
detect_eof_data(p, c) ==
    LET data == c.data
        png == IF starts_with(data, <<137, 80, 78, 71>>)
               THEN LET pos == position(data, <<0, 0, 0, 0, 73, 69, 78, 68>>)
                    IN IF pos = {} THEN <<>>
                       ELSE eof_finding(p, data, "PNG",
                                        png_end(CHOOSE x \in pos : TRUE),
                                        "Data after PNG IEND chunk")
               ELSE <<>>
        jpeg == IF starts_with(data, <<255, 216, 255>>)
                THEN LET pos == rposition(data, <<255, 217>>)
                     IN IF pos = {} THEN <<>>
                        ELSE eof_finding(p, data, "JPEG",
                                         (CHOOSE x \in pos : TRUE) + 2,
                                         "Data after JPEG EOI marker")
                ELSE <<>>
    IN png \o jpeg

\* c.ws: the number of lines whose trailing whitespace mixes tabs and spaces.
detect_whitespace_encoding(p, c) ==
    When(c.utf8 /\ c.ws > 5,
         Finding("whitespace_encoding", <<ToString(c.ws)>>,
                 Min((c.ws * ConfOne) \div 100, 95), p, Medium,
                 "Whitespace steganography"))

detect_homoglyphs(p, c) ==
    When(c.utf8 /\ Has(c, "homoglyph"),
         Finding("unicode_homoglyph", <<"homoglyphs">>, 85, p, High,
                 "Unicode homoglyph substitution"))

stego_analyze_file(t, p) ==
    LET c == content_of(t, p)
    IN {detect_eof_data(p, c) \o detect_whitespace_encoding(p, c)
        \o detect_homoglyphs(p, c)}

(***************************** ObfuscationDetector ***********************)
detect_encrypted_strings(p, c) ==
    When(Has(c, "hex_string"),
         Finding("hex_encoded_string", <<"hex">>, 85, p, Medium,
                 "Hex-encoded string"))
    \o When(Has(c, "b64_high_entropy"),
            Finding("base64_encoded_string", <<"base64">>, 80, p, Medium,
                    "High-entropy Base64 string"))

detect_control_flow_flattening(p, c) ==
    When(Has(c, "flattening"),
         Finding("control_flow_flattening", <<"switch">>, 75, p, High,
                 "Control flow flattening"))

detect_opaque_predicates(p, c) ==
    When(Has(c, "opaque_gt3"),
         Finding("opaque_predicate", <<"literal true">>, 70, p, Medium,
                 "Opaque predicate"))

obfuscation_analyze_file(t, p) ==
    IF read_to_string_ok(t, p)
    THEN LET c == content_of(t, p)
         IN {detect_encrypted_strings(p, c)
             \o detect_control_flow_flattening(p, c)
             \o detect_opaque_predicates(p, c)}
    ELSE {<<>>}

(***************************** NetworkDetector ***************************)
detect_dga_domains(p, c) ==
    When(Has(c, "dga_url"),
         Finding("potential_dga_domain", <<"dga">>, 75, p, High,
                 "Domain Generation Algorithm"))
    \o When(Has(c, "b64_domain"),
            Finding("base64_domain", <<"domain">>, 80, p, High,
                    "Base64-encoded domain"))

\* A dotted quad of the content is four octet tokens of one to three
\* digits.  An octet token is kept as value + 1000 * (leading zeros):
\* 7 is "7", 1007 is "07", 2007 is "007".
octet_value(o) == o % 1000
octet_string(o) ==
    (CASE o \div 1000 = 0 -> "" [] o \div 1000 = 1 -> "0" [] OTHER -> "00")
    \o ToString(octet_value(o))

\* The text regex capture 1 holds.
ip_string(ip) == octet_string(ip[1]) \o "." \o octet_string(ip[2]) \o "."
                 \o octet_string(ip[3]) \o "." \o octet_string(ip[4])

\* safe_ips, a set of strings.
safe_ips == {"127.0.0.1", "0.0.0.0", "255.255.255.255",
             "192.168.0.1", "192.168.1.1", "10.0.0.1"}

\* A private-range test that knows 10/8 only.
private_range_class_a(ip) ==
    /\ \A i \in 1..4 : octet_value(ip[i]) <= 255
    /\ octet_value(ip[1]) = 10

\* The octets that parse as u8; the private-range test applies when all four do.
private_range(ip) ==
    /\ \A i \in 1..4 : octet_value(ip[i]) <= 255
    /\ \/ octet_value(ip[1]) = 10
       \/ (octet_value(ip[1]) = 172 /\ octet_value(ip[2]) >= 16
             /\ octet_value(ip[2]) <= 31)
       \/ (octet_value(ip[1]) = 192 /\ octet_value(ip[2]) = 168)

\* found_ips after the loop over the matches.
found_ips(c) ==
    {c.ips[i] : i \in {j \in 1..Len(c.ips) :
                          ip_string(c.ips[j]) \notin safe_ips
                          /\ ~private_range(c.ips[j])}}

\* The possible outcomes: "ips" lists the HashSet in its iteration order.
detect_hardcoded_ips(p, c) ==
    IF found_ips(c) = {} THEN {<<>>}
    ELSE {<<Finding("hardcoded_public_ip",
                    [i \in 1..Len(o) |-> ip_string(o[i])]
                    \o <<ToString(Cardinality(found_ips(c)))>>,
                    70, p, Medium, "Hardcoded public IP addresses")>>
          : o \in Orders(found_ips(c))}

detect_suspicious_ports(p, c) ==
    When(Has(c, "port_4444"),
         Finding("suspicious_ports", <<"4444", "1">>, 75, p, High,
                 "Suspicious port numbers"))

network_analyze_file(t, p) ==
    IF read_to_string_ok(t, p)
    THEN LET c == content_of(t, p)
         IN CatAll(<< {detect_dga_domains(p, c)},
                      detect_hardcoded_ips(p, c),
                      {detect_suspicious_ports(p, c)} >>)
    ELSE {<<>>}

(***************************** TemporalDetector **************************)
comparison_patterns == <<"if_date", "if_gettime", "if_timestamp", "new_date">>

detect_time_bombs(p, c) ==
    Flatten([i \in 1..Len(comparison_patterns) |->
        When(Has(c, comparison_patterns[i]) /\ Has(c, "date_literal"),
             Finding("potential_time_bomb", <<comparison_patterns[i]>>, 70, p,
                     Critical, "Date-based trigger"))])

detect_delayed_execution(p, c) ==
    When(Has(c, "sleep_long"),
         Finding("long_sleep_delay", <<"120000">>, 75, p, High, "Long sleep delay"))
    \o When(Has(c, "timer_long"),
            Finding("long_timer_delay", <<"600000">>, 70, p, Medium,
                    "Long timer delay"))

detect_scheduling(p, c) ==
    When(Has(c, "sched"),
         Finding("scheduling_detected", <<"cron">>, 60, p, Low,
                 "Scheduling mechanism"))

temporal_analyze_file(t, p) ==
    IF read_to_string_ok(t, p)
    THEN LET c == content_of(t, p)
         IN {detect_time_bombs(p, c) \o detect_delayed_execution(p, c)
             \o detect_scheduling(p, c)}
    ELSE {<<>>}


(***************************** AudioDetector *****************************)
detect_ultrasonic(p, c) ==
    When(Has(c, "audio_api") /\ Has(c, "ultra_freq"),
         Finding("ultrasonic_frequency", <<"AudioContext", "19500">>, 80, p, High,
                 "Ultrasonic frequency usage"))

\* A ladder with one rung: every microphone token is critical.
detect_mic_access_critical(p, c) ==
    When(Has(c, "mic"),
         Finding("microphone_access", <<"microphone", "true">>, 85, p, Critical,
                 "Microphone access"))

detect_mic_access(p, c) ==
    LET has_network == Has(c, "net_kw")
    IN When(Has(c, "mic"),
            Finding("microphone_access",
                    <<"microphone", IF has_network THEN "true" ELSE "false">>,
                    IF has_network THEN 85 ELSE 60, p,
                    IF has_network THEN Critical ELSE Medium,
                    "Microphone access"))

\* The length of the WAV header that is skipped.
WavHeader == 44
\* data_section.iter().take(10000)
ZeroRunWindow == 10000
\* A run counts when current_run > 100.
ZeroRunMin == 100
\* The anomaly is reported when zero_runs > 5.
ZeroRunLimit == 5

\* The counting loop over the bytes of w.  One step handles a run <<b, n>>,
\* that is n passes of the loop body on the byte b: a zero byte adds one to
\* current_run; a non-zero byte counts the run before it if it is long
\* enough and resets current_run (the passes after the first find it 0).
zero_runs(w) ==
    LET RECURSIVE go(_, _, _)
        go(i, count, current_run) ==
            IF i > Len(w) THEN count
            ELSE IF w[i][2] = 0 THEN go(i + 1, count, current_run)
            ELSE IF w[i][1] = 0 THEN go(i + 1, count, current_run + w[i][2])
            ELSE go(i + 1,
                    IF current_run > ZeroRunMin THEN count + 1 ELSE count, 0)
    IN go(1, 0, 0)

detect_audio_manipulation(p, c) ==
    IF c.ext \in {"wav", "mp3", "ogg", "flac", "aac"}
       /\ c.ext = "wav" /\ data_len(c.data) > WavHeader
    THEN LET data_section == slice(c.data, WavHeader, data_len(c.data))
             runs == zero_runs(slice(data_section, 0, ZeroRunWindow))
         IN When(runs > ZeroRunLimit,
                 Finding("audio_anomaly", <<"WAV", runs>>, 65, p, Medium,
                         "Audio file anomaly"))
    ELSE <<>>

audio_analyze_file(t, p) ==
    LET c == content_of(t, p)
    IN {detect_audio_manipulation(p, c)
        \o (IF read_to_string_ok(t, p)
            THEN detect_ultrasonic(p, c) \o detect_mic_access(p, c)
            ELSE <<>>)}

(***************************** InjectionDetector *************************)
detect_keyboard_injection(p, c) ==
    LET has_loop == Has(c, "loop")
        has_delay == Has(c, "delay")
    IN When(Has(c, "keyboard"),
            Finding("keyboard_injection", <<"SendInput">>,
                    IF has_loop /\ has_delay THEN 90 ELSE 75, p,
                    IF has_loop /\ has_delay THEN Critical
                    ELSE IF has_loop THEN High ELSE Medium,
                    "Keyboard injection"))

detect_clipboard_hijacking(p, c) ==
    LET has_interval == Has(c, "monitor_kw")
        has_crypto == Has(c, "crypto_kw")
    IN When(Has(c, "clipboard"),
            Finding("clipboard_access", <<"clipboard">>,
                    IF has_crypto THEN 95 ELSE IF has_interval THEN 80 ELSE 65, p,
                    IF has_crypto THEN Critical
                    ELSE IF has_interval THEN High ELSE Medium,
                    IF has_crypto THEN "Crypto clipboard hijacker"
                    ELSE IF has_interval THEN "Clipboard monitoring"
                    ELSE "Clipboard access"))

detect_hid_attacks_loop(p, c) ==
    LET has_keyboard == Has(c, "keyboard") /\ Has(c, "loop") /\ Has(c, "delay")
    IN When(Has(c, "hid"),
            Finding("hid_device_access", <<"HID">>,
                    IF has_keyboard THEN 85 ELSE 70, p,
                    IF has_keyboard THEN Critical ELSE High,
                    IF has_keyboard THEN "HID keyboard emulation (BadUSB-style)"
                    ELSE "HID device access"))

\* has_keyboard is the detector's keyboard_regex on the same content.
detect_hid_attacks(p, c) ==
    LET has_keyboard == Has(c, "keyboard")
    IN When(Has(c, "hid"),
            Finding("hid_device_access", <<"HID">>,
                    IF has_keyboard THEN 85 ELSE 70, p,
                    IF has_keyboard THEN Critical ELSE High,
                    IF has_keyboard THEN "HID keyboard emulation (BadUSB-style)"
                    ELSE "HID device access"))

detect_automation(p, c) ==
    When(Has(c, "automation"),
         Finding("automation_framework", <<"pyautogui">>, 70, p, Medium,
                 "Automation framework"))

injection_analyze_file(t, p) ==
    IF read_to_string_ok(t, p)
    THEN LET c == content_of(t, p)
         IN {detect_keyboard_injection(p, c) \o detect_clipboard_hijacking(p, c)
             \o detect_hid_attacks(p, c) \o detect_automation(p, c)}
    ELSE {<<>>}

(***************************** SvgDetector *******************************)
is_svg_file(c) == c.ext = "svg" \/ Has(c, "svg_signature")

\* The preview &mat.as_str()[..len.min(100)] is a byte slice of a str: it
\* panics when byte 100 is not a character boundary.
detect_script_injection(p, c) ==
    (IF Has(c, "svg_script") /\ Has(c, "script_cut_in_char") THEN <<Unwind>>
     ELSE When(Has(c, "svg_script"),
               Finding("svg_script_tag", <<"script">>, 99, p, Critical,
                       "SVG script injection")))
    \o When(Has(c, "svg_event"),
            Finding("svg_event_handler", <<"onload">>, 95, p, Critical,
                    "SVG event handler injection"))

detect_external_resources(p, c) ==
    When(Has(c, "svg_href_js"),
         Finding("svg_javascript_href", <<"href">>, 99, p, Critical,
                 "JavaScript in href attribute"))
    \o When(Has(c, "svg_href_ext"),
            Finding("svg_external_href", <<"href">>, 80, p, High,
                    "External resource reference"))
    \o When(Has(c, "svg_use_ext"),
            Finding("svg_external_use", <<"use">>, 85, p, High,
                    "External use reference"))

detect_data_uri(p, c) ==
    When(Has(c, "svg_data_html"),
         Finding("svg_data_uri", <<"html">>, 90, p, Critical, "Data URI payload"))
    \o When(Has(c, "svg_data_svg"),
            Finding("svg_data_uri", <<"nested_svg">>, 90, p, High, "Data URI payload"))
    \o When(Has(c, "svg_b64_js"),
            Finding("svg_base64_js", <<"base64">>, 95, p, Critical,
                    "Base64 encoded JavaScript"))

detect_foreign_object(p, c) ==
    LET has_script == Has(c, "svg_foreign_script") \/ Has(c, "svg_foreign_iframe")
        has_form == Has(c, "svg_foreign_form")
    IN When(Has(c, "svg_foreign"),
            Finding("svg_foreign_object", <<"foreignObject">>,
                    IF has_script THEN 99 ELSE 75, p,
                    IF has_script THEN Critical
                    ELSE IF has_form THEN High ELSE Medium,
                    "foreignObject HTML embedding"))

detect_css_injection(p, c) ==
    When(Has(c, "svg_css"),
         Finding("svg_css_injection", <<"@import">>, 85, p, High, "CSS injection"))

detect_xxe(p, c) ==
    When(Has(c, "svg_entity"),
         Finding("svg_xxe", <<"ENTITY">>, 95, p, Critical, "XXE entity"))

detect_iframes(p, c) ==
    When(Has(c, "svg_iframe"),
         Finding("svg_iframe", <<"iframe">>, 95, p, Critical, "Embedded iframe"))

svg_analyze_file(t, p) ==
    IF read_to_string_ok(t, p) /\ is_svg_file(content_of(t, p))
    THEN LET c == content_of(t, p)
         IN {detect_script_injection(p, c) \o detect_external_resources(p, c)
             \o detect_data_uri(p, c) \o detect_foreign_object(p, c)
             \o detect_css_injection(p, c) \o detect_xxe(p, c)
             \o detect_iframes(p, c)}
    ELSE {<<>>}


(***************************** FilesystemDetector ************************)
\* max_depth of the symlink, screenshot, sensitive-file and traversal walks.
FsMaxDepth == 10
\* max_depth of the .git walk.
GitMaxDepth == 5

sensitive_files ==
    {".env", ".env.local", ".env.production", "credentials.json", "secrets.yaml",
     "secrets.yml", ".npmrc", ".pypirc", "wp-config.php", "config.php",
     ".htpasswd", "shadow", "passwd"}

\* The dotfile names of the layout that the name test calls suspicious.
hidden_suspicious ==
    {".bashrc", ".profile", ".bash_profile", ".zshrc", ".vimrc", ".npmrc",
     ".pypirc"}

\* The canonical targets the escape test calls sensitive (/etc, /root,
\* /home, /.ssh, /.aws); every other path of the model lies under /t.
is_sensitive(q) == q \in Outside

\* A walk that remembers no link.
visit_forget(visited, own) == {}

\* `if let Ok(canonical) = fs::canonicalize(entry_path) { visited.insert }`
visit(visited, own) == IF own.ok THEN visited \cup {own.path} ELSE visited

\* The walk over the entries, `visited` growing with each symbolic link
\* whose own path canonicalizes.  The link targets of the model are
\* absolute, so absolute_target is the target itself.
detect_symlink_attacks(t, p) ==
    LET w == filter_ok(WalkDir(t, p, FsMaxDepth))
        checks(l, visited) ==
            LET canonical == canonicalize(t, l.target)
            IN When(l.target = l.path,
                    Finding("symlink_self_reference", <<l.path, l.target>>, 99,
                            l.path, High, "Self-referencing symlink"))
               \o When(canonical.ok /\ canonical.path \in visited,
                       Finding("symlink_circular",
                               <<l.path, l.target, canonical.path>>, 95,
                               l.path, High, "Circular symlink chain"))
               \o When(canonical.ok /\ canonical.path \notin Paths
                         /\ is_sensitive(canonical.path),
                       Finding("symlink_escape", <<l.path, canonical.path>>, 90,
                               l.path, Critical, "Symlink directory escape"))
        broken(l) == <<Finding("symlink_broken", <<l.path>>, 70, l.path, Low,
                               "Broken symlink")>>
        RECURSIVE go(_, _)
        go(i, visited) ==
            IF i > Len(w) THEN <<>>
            ELSE IF ~is_symlink(t, w[i].path) THEN go(i + 1, visited)
            ELSE LET l == link_at(t, w[i].path)
                     own == canonicalize(t, l.path)
                 IN (IF l.read_link THEN checks(l, visited) ELSE broken(l))
                    \o go(i + 1, visit(visited, own))
    IN go(1, {})

\* fs::read_dir(path): the top-level entries; it fails on a file.
detect_hidden_root(t, p) ==
    IF is_file(p) THEN <<>>
    ELSE LET top == SelectSeq(filter_ok(WalkDir(t, p, 1)), LAMBDA e : e.depth = 1)
         IN Flatten([i \in 1..Len(top) |->
                When(file_name(t, top[i].path) \in hidden_suspicious,
                     Finding("hidden_sensitive_file",
                             <<file_name(t, top[i].path)>>, 80, top[i].path,
                             Medium, "Hidden sensitive file"))])

detect_git_exposure(t, p) ==
    LET w == filter_ok(WalkDir(t, p, GitMaxDepth))
    IN Flatten([i \in 1..Len(w) |->
           When(~w[i].is_file /\ file_name(t, w[i].path) = ".git",
                Finding("git_directory_exposed", <<w[i].path>>, 95, w[i].path,
                        High, "Exposed .git directory"))])

\* The basenames of the layout that screenshot_regex matches.
screenshot_names == {"screenshot.png"}
\* The tokens the alternation of screenshot_regex matches, and the ones its
\* extension group matches.
screenshot_stems ==
    {"screenshot", "screen_shot", "screencap", "capture", "scrn", "desktop1",
     "display2"}
image_extensions == {".png", ".jpg", ".jpeg", ".bmp", ".gif", ".webp"}

\* str::to_lowercase on a token
to_lowercase(tok) ==
    CASE tok = "TMP" -> "tmp"
      [] tok = "Capture" -> "capture"
      [] tok = ".PNG" -> ".png"
      [] OTHER -> tok

\* screenshot_regex.is_match(name): case-insensitive, anchored at the end
\* of the name only.
screenshot_is_match(t, p) ==
    \/ file_name(t, p) \in screenshot_names
    \/ /\ is_more(t, p)
       /\ LET name == components(t, p)[Len(components(t, p))]
              n == Len(name)
          IN /\ n >= 2
             /\ to_lowercase(name[n]) \in image_extensions
             /\ to_lowercase(name[n - 1]) \in screenshot_stems

suspicious_dirs == {"temp", "tmp", ".cache", "hidden", "data", "uploads"}

\* s.to_lowercase().contains(d) on the displayed path: none of the words
\* holds a separator, so a match lies inside one component.
path_contains(t, p, d) ==
    \E i \in 1..Len(components(t, p)) :
       \E k \in 1..Len(components(t, p)[i]) :
          to_lowercase(components(t, p)[i][k]) = d

\* screenshots.iter().any(|s| suspicious_dirs.iter().any(|d| ...))
in_suspicious(t, screenshots) ==
    \E i \in 1..Len(screenshots) :
       \E d \in suspicious_dirs : path_contains(t, screenshots[i], d)

detect_screenshot_collection(t, p) ==
    LET w == filter_ok(WalkDir(t, p, FsMaxDepth))
        hits == SelectSeq(w, LAMBDA e : screenshot_is_match(t, e.path))
        screenshots == [i \in 1..Len(hits) |-> hits[i].path]
    IN When(Len(screenshots) >= 5,
            Finding("screenshot_collection",
                    <<Len(screenshots),
                      SubSeq(screenshots, 1, Min(Len(screenshots), 5))>>,
                    IF in_suspicious(t, screenshots) THEN 90 ELSE 75, p,
                    IF Len(screenshots) > 20 \/ in_suspicious(t, screenshots)
                    THEN Critical ELSE High,
                    "Screenshot collection"))

detect_sensitive_files(t, p) ==
    LET w == filter_ok(WalkDir(t, p, FsMaxDepth))
    IN Flatten([i \in 1..Len(w) |->
           When(file_name(t, w[i].path) \in sensitive_files,
                Finding("sensitive_file_exposed",
                        <<file_name(t, w[i].path), w[i].path>>, 95, w[i].path,
                        Critical, "Sensitive file exposure"))])

\* No basename of the layout contains "..", "./" or "/.".
detect_path_traversal(t, p) ==
    Flatten([i \in 1..Len(filter_ok(WalkDir(t, p, FsMaxDepth))) |-> <<>>])

filesystem_analyze(t, p) ==
    {detect_symlink_attacks(t, p) \o detect_hidden_root(t, p)
     \o detect_git_exposure(t, p) \o detect_screenshot_collection(t, p)
     \o detect_sensitive_files(t, p) \o detect_path_traversal(t, p)}


(***************************** the Skill trait ***************************)
BuiltIn == <<"cipher", "stego", "obfuscation", "network", "temporal", "audio",
             "injection", "svg", "filesystem">>
\* Two further implementors of Skill a caller may register: one whose
\* execute always fails, one that reuses the network detector's name.
Custom == {"probe_failing", "shadow_network"}

\* Skill::name
name(s) ==
    CASE s = "cipher" -> "detect_cipher_patterns"
      [] s = "stego" -> "detect_steganography"
      [] s = "obfuscation" -> "detect_obfuscation"
      [] s = "network" -> "detect_network_patterns"
      [] s = "temporal" -> "detect_temporal_attacks"
      [] s = "audio" -> "detect_audio_channels"
      [] s = "injection" -> "detect_injection_attacks"
      [] s = "svg" -> "detect_svg_injection"
      [] s = "filesystem" -> "detect_filesystem_threats"
      [] s = "shadow_network" -> "detect_network_patterns"
      [] OTHER -> "probe_failing"

\* Skill::description, shortened to its first words.
description(s) ==
    CASE s = "cipher" -> "Detects cryptographic patterns"
      [] s = "stego" -> "Detects steganographic patterns"
      [] s = "obfuscation" -> "Detects code obfuscation patterns"
      [] s = "network" -> "Detects malicious network patterns"
      [] s = "temporal" -> "Detects time-based attack patterns"
      [] s = "audio" -> "Detects audio-based covert channels"
      [] s = "injection" -> "Detects input injection patterns"
      [] s = "svg" -> "Detects malicious patterns in SVG files"
      [] s = "filesystem" -> "Detects filesystem-based security threats"
      [] OTHER -> "A skill registered by the caller"

\* schema::string_param, schema::bool_param and the integer parameter the
\* filesystem detector writes out (descriptions left out).
string_param == [type |-> "string"]
bool_param(default) == [type |-> "boolean", default |-> default]
integer_param(default) == [type |-> "integer", default |-> default]

\* The `properties` object each schema() passes to skill_schema.
properties(s) ==
    CASE s = "cipher" -> [path |-> string_param, recursive |-> bool_param(TRUE),
                          deep_scan |-> bool_param(FALSE)]
      [] s = "stego" -> [path |-> string_param, recursive |-> bool_param(TRUE),
                         check_images |-> bool_param(FALSE)]
      [] s = "audio" -> [path |-> string_param, recursive |-> bool_param(TRUE),
                         analyze_audio_files |-> bool_param(TRUE)]
      [] s = "filesystem" -> [path |-> string_param,
                              follow_symlinks |-> bool_param(FALSE),
                              max_depth |-> integer_param(FsMaxDepth)]
      [] s \in {"obfuscation", "network", "temporal", "injection", "svg"} ->
            [path |-> string_param, recursive |-> bool_param(TRUE)]
      [] OTHER -> [path |-> string_param]

\* A schema whose required list names a key the properties do not have.
skill_schema_required_target(n, d, props, required) ==
    [name |-> n, description |-> d,
     parameters |-> [type |-> "object", properties |-> props,
                     required |-> required \o <<"target">>]]

\* schema::skill_schema
skill_schema(n, d, props, required) ==
    [name |-> n, description |-> d,
     parameters |-> [type |-> "object", properties |-> props,
                     required |-> required]]

\* Skill::schema
schema(s) == skill_schema(name(s), description(s), properties(s), <<"path">>)

\* Skill::confidence_threshold (the default, and SvgDetector's override).
confidence_threshold(s) == IF s = "svg" THEN SvgThreshold ELSE DefaultThreshold

(***************************** ScanParams ********************************)
\* A params document: each key is absent, of the expected JSON type, or of
\* another type.
Params(pathTag, path, recTag, rec) ==
    [path |-> path, recursive |-> rec, pathTag |-> pathTag, recTag |-> recTag]

path_only(p) == Params("string", p, "absent", FALSE)

\* A params document that also carries the two keys the filesystem
\* detector's schema declares.
FsParams(p, d, follow) ==
    [path |-> p, recursive |-> FALSE, pathTag |-> "string", recTag |-> "absent",
     max_depth |-> d, follow_symlinks |-> follow]

ParamDocs ==
    {path_only(Root), path_only("/t/a"), path_only(Missing),
     Params("string", Root, "bool", TRUE),
     Params("absent", "", "absent", FALSE),
     Params("number", Missing, "absent", FALSE),
     Params("string", Missing, "string", FALSE)}

\* ScanParams::from_value: serde fails on a missing or mistyped field;
\* #[serde(default)] makes recursive false when absent.
from_value_ok(params) ==
    params.pathTag = "string" /\ params.recTag \in {"absent", "bool"}

from_value(params) ==
    [path |-> params.path,
     recursive |-> IF params.recTag = "bool" THEN params.recursive ELSE FALSE]

(***************************** execute ***********************************)
analyze_file(s, t, p) ==
    CASE s = "cipher" -> cipher_analyze_file(t, p)
      [] s = "stego" -> stego_analyze_file(t, p)
      [] s = "obfuscation" -> obfuscation_analyze_file(t, p)
      [] s = "network" -> network_analyze_file(t, p)
      [] s = "temporal" -> temporal_analyze_file(t, p)
      [] s = "audio" -> audio_analyze_file(t, p)
      [] s = "injection" -> injection_analyze_file(t, p)
      [] s = "svg" -> svg_analyze_file(t, p)
      [] OTHER -> {<<>>}

\* A walker that descends whatever `recursive` says.
walker_unbounded(t, p, recursive) == WalkDir(t, p, TreeDepth)

\* The walker analyze_directory builds.
walker(t, p, recursive) ==
    IF recursive THEN WalkDir(t, p, TreeDepth) ELSE WalkDir(t, p, 1)

\* A walk that gives up, returning nothing, when a file cannot be read as
\* text.
analyze_directory_abort(s, t, p, recursive) ==
    LET files == SelectSeq(filter_ok(walker(t, p, recursive)),
                           LAMBDA e : e.is_file)
    IN IF \E i \in 1..Len(files) : ~read_to_string_ok(t, files[i].path)
       THEN {<<>>}
       ELSE CatAll([i \in 1..Len(files) |-> analyze_file(s, t, files[i].path)])

analyze_directory(s, t, p, recursive) ==
    LET files == SelectSeq(filter_ok(walker(t, p, recursive)),
                           LAMBDA e : e.is_file)
    IN CatAll([i \in 1..Len(files) |-> analyze_file(s, t, files[i].path)])

\* The candidate findings of one execute, before the threshold filter.
candidates(s, t, sp) ==
    IF s = "filesystem" THEN filesystem_analyze(t, sp.path)
    ELSE IF is_file(sp.path) THEN analyze_file(s, t, sp.path)
    ELSE analyze_directory(s, t, sp.path, sp.recursive)

filter_threshold_none(findings, threshold) == findings

\* findings.into_iter().filter(|f| f.confidence >= threshold).collect()
filter_threshold(findings, threshold) ==
    SelectSeq(findings, LAMBDA f : f.confidence >= threshold)

\* The two checks every built-in execute makes, in order.
precheck(params) ==
    IF ~from_value_ok(params) THEN "Failed to parse scan params"
    ELSE IF ~exists(from_value(params).path) THEN "Path does not exist"
    ELSE "none"

\* Skill::execute: the set of results the call can return, each with the
\* candidate list it was filtered from.
execute(s, t, params) ==
    IF s = "probe_failing"
    THEN {[res |-> Err("AnalysisFailed", "probe"), cand |-> <<>>]}
    ELSE IF s = "shadow_network"
    THEN {[res |-> Ok(with_findings(<<>>)), cand |-> <<>>]}
    ELSE IF precheck(params) # "none"
    THEN {[res |-> Err("InvalidParams", precheck(params)), cand |-> <<>>]}
    ELSE {[res |-> IF panicked(c) THEN Unwound
                   ELSE Ok(with_findings(filter_threshold(c, confidence_threshold(s)))),
           cand |-> c] : c \in candidates(s, t, from_value(params))}


(***************************** SkillRegistry *****************************)
\* The ledger and the desktop backend while the firewall library runs
\* alone: no account exists and the backend is not started.
NoLedger == [genesis |-> <<>>, wallets |-> <<>>]
NoApp == [started |-> FALSE]

VARIABLES
    tree,      \* the scanned filesystem; no operation writes to it
    skills,    \* SkillRegistry.skills: name -> skill
    iter,      \* the iteration order of the skills map, fixed between inserts
    ret,       \* the last operation and what it returned
    scans,     \* the results of the latest consecutive scan_path calls
    calls,     \* per concurrent caller: the call in progress on the shared registry
    ledger,    \* the accounts of the genesis ledger program
    app        \* the desktop backend: its shared state and running commands

vars == <<tree, skills, iter, ret, scans, calls, ledger, app>>

\* The variables of the firewall library.
firewall_vars == <<tree, skills, iter, ret, scans, calls>>

EmptyMap == [n \in {} |-> "cipher"]

\* A name no skill carries.
UnknownName == "detect_nothing"

\* The skills a caller registers one by one.
RegisterInputs == {"cipher", "network", "probe_failing", "shadow_network"}

rotate(q, k) == [i \in 1..Len(q) |-> q[((i + k - 1) % Len(q)) + 1]]
reverse(q) == [i \in 1..Len(q) |-> q[Len(q) + 1 - i]]

\* HashMap::insert of a new key: it lands anywhere in the iteration order.
insert_at(q, k, x) == SubSeq(q, 1, k) \o <<x>> \o SubSeq(q, k + 1, Len(q))

Ret(op) ==
    [op |-> op, name |-> "", params |-> path_only(""), skill |-> "",
     found |-> FALSE, res |-> Ok(with_findings(<<>>)), cand |-> <<>>,
     pairs |-> <<>>, names |-> <<>>, before |-> EmptyMap,
     findings |-> <<>>, ok |-> TRUE,
     value |-> [skills |-> <<>>, version |-> "", format |-> ""]]

\* HashMap::insert keeps the first value registered under a name.
insert_keep_first(m, k, v) ==
    [n \in DOMAIN m \cup {k} |-> IF n \in DOMAIN m THEN m[n] ELSE v]

\* HashMap::insert(k, v): a later value replaces an earlier one.
insert(m, k, v) ==
    [n \in DOMAIN m \cup {k} |-> IF n = k THEN v ELSE m[n]]

\* The key register files a skill under.
register_key_category(s) == IF s \in Custom THEN name(s) ELSE s

register_key(s) == name(s)

\* create_default_registry: the nine detectors registered in turn.
create_default_registry ==
    LET RECURSIVE go(_, _)
        go(m, i) == IF i > Len(BuiltIn) THEN m
                    ELSE go(insert(m, register_key(BuiltIn[i]), BuiltIn[i]), i + 1)
    IN go(EmptyMap, 1)

\* Iteration orders of the freshly built map.  The family holds the
\* registration order, its reverse and a rotation, so every pair of skills
\* is met in both relative orders.
DefaultOrders ==
    LET base == [i \in 1..Len(BuiltIn) |-> register_key(BuiltIn[i])]
    IN {base, reverse(base), rotate(base, Len(base) \div 2)}

\* SkillRegistry::new
New ==
    /\ skills' = EmptyMap
    /\ iter' = <<>>
    /\ ret' = Ret("new")
    /\ scans' = <<>>
    /\ UNCHANGED <<ledger, app, tree, calls>>

\* SkillRegistry::register
Register(s) ==
    /\ \/ register_key(s) \in DOMAIN skills
       \/ Cardinality(DOMAIN skills) < MaxRegistered
    /\ skills' = insert(skills, register_key(s), s)
    /\ IF register_key(s) \in DOMAIN skills
       THEN iter' = iter
       ELSE \E k \in 0..Len(iter) : iter' = insert_at(iter, k, register_key(s))
    /\ ret' = [Ret("register") EXCEPT !.skill = s, !.before = skills]
    /\ scans' = <<>>
    /\ UNCHANGED <<ledger, app, tree, calls>>

\* create_default_registry
CreateDefault ==
    /\ skills' = create_default_registry
    /\ iter' \in DefaultOrders
    /\ ret' = Ret("create_default_registry")
    /\ scans' = <<>>
    /\ UNCHANGED <<ledger, app, tree, calls>>

\* SkillRegistry::get
Get(n) ==
    /\ ret' = [Ret("get") EXCEPT !.name = n, !.found = (n \in DOMAIN skills),
                                 !.skill = IF n \in DOMAIN skills THEN skills[n]
                                           ELSE ""]
    /\ scans' = <<>>
    /\ UNCHANGED <<ledger, app, tree, skills, iter, calls>>

\* SkillRegistry::list
List ==
    /\ ret' = [Ret("list") EXCEPT !.names = iter]
    /\ scans' = <<>>
    /\ UNCHANGED <<ledger, app, tree, skills, iter, calls>>

\* SkillRegistry::schemas: one schema per value of the map, in the map's
\* iteration order.
schemas(m, order) == [i \in 1..Len(order) |-> schema(m[order[i]])]

Schemas ==
    /\ ret' = [Ret("schemas") EXCEPT !.value.skills = schemas(skills, iter)]
    /\ scans' = <<>>
    /\ UNCHANGED <<ledger, app, tree, skills, iter, calls>>

\* SkillRegistry::export_schemas
export_schemas(m, order) ==
    [skills |-> schemas(m, order), version |-> "1.0",
     format |-> "openai_function_calling"]

ExportSchemas ==
    /\ ret' = [Ret("export_schemas") EXCEPT !.value = export_schemas(skills, iter)]
    /\ scans' = <<>>
    /\ UNCHANGED <<ledger, app, tree, skills, iter, calls>>

\* export_tool_schemas: the export of a freshly built default registry.
ExportToolSchemas ==
    /\ \E order \in DefaultOrders :
          ret' = [Ret("export_tool_schemas") EXCEPT
                     !.value = export_schemas(create_default_registry, order)]
    /\ scans' = <<>>
    /\ UNCHANGED <<ledger, app, tree, skills, iter, calls>>

\* SkillRegistry::invoke: the set of results for a given registry.
invoke(m, t, n, params) ==
    IF n \in DOMAIN m THEN execute(m[n], t, params)
    ELSE {[res |-> Err("InvalidParams", "Unknown skill"), cand |-> <<>>]}

Invoke(n, params) ==
    /\ \E r \in invoke(skills, tree, n, params) :
          ret' = [Ret("invoke") EXCEPT !.name = n, !.params = params,
                                       !.res = r.res, !.cand = r.cand,
                                       !.ok = r.res.ok,
                                       !.skill = IF n \in DOMAIN skills
                                                 THEN skills[n] ELSE ""]
    /\ scans' = <<>>
    /\ UNCHANGED <<ledger, app, tree, skills, iter, calls>>


\* SkillRegistry::scan_all: one (name, result) pair per entry of the map,
\* in the map's iteration order.  A panic in a skill ends the iteration:
\* the list then stops at that skill and is never returned.
scan_all(m, order, t, path) ==
    LET RECURSIVE go(_)
        go(i) ==
            IF i > Len(order) THEN {<<>>}
            ELSE UNION {IF r.res = Unwound
                        THEN {<<[name |-> order[i], res |-> r.res]>>}
                        ELSE {<<[name |-> order[i], res |-> r.res]>> \o rest
                              : rest \in go(i + 1)}
                        : r \in execute(m[order[i]], t, path_only(path))}
    IN go(1)

ScanAll(path) ==
    /\ \E pairs \in scan_all(skills, iter, tree, path) :
          ret' = [Ret("scan_all") EXCEPT
                     !.name = path, !.pairs = pairs,
                     !.ok = \A i \in 1..Len(pairs) : pairs[i].res # Unwound]
    /\ scans' = <<>>
    /\ UNCHANGED <<ledger, app, tree, skills, iter, calls>>

\* The comparator of scan_path: a goes strictly before b.
sorts_before(a, b) ==
    \/ a.severity > b.severity
    \/ a.severity = b.severity /\ a.confidence > b.confidence

\* A pass that leaves the list as collected.
sort_by_none(findings) == findings

\* Vec::sort_by is stable: an element is placed after every element it
\* does not strictly precede.
sort_by(findings) ==
    LET place(sorted, x) ==
            LET firstAfter == {i \in 1..Len(sorted) : sorts_before(x, sorted[i])}
                k == IF firstAfter = {} THEN Len(sorted)
                     ELSE (CHOOSE i \in firstAfter :
                              \A j \in firstAfter : i <= j) - 1
            IN insert_at(sorted, k, x)
        RECURSIVE go(_, _)
        go(sorted, i) ==
            IF i > Len(findings) THEN sorted
            ELSE go(place(sorted, findings[i]), i + 1)
    IN go(<<>>, 1)

\* The findings scan_path collects from the Ok results of one pass over
\* the registry, before sorting.
collect(m, order, t, path) ==
    CatAll([i \in 1..Len(order) |->
               {IF r.res.ok THEN r.res.output.findings
                ELSE IF r.res = Unwound THEN <<Unwind>> ELSE <<>>
                : r \in invoke(m, t, order[i], path_only(path))}])

\* scan_path: builds its own default registry, whose iteration order is
\* any of DefaultOrders; it returns Ok unless a detector panicked.
scan_path(t, path) ==
    {IF panicked(fs) THEN [ok |-> FALSE, findings |-> <<>>]
     ELSE [ok |-> TRUE, findings |-> sort_by(fs)]
     : fs \in UNION {collect(create_default_registry, order, t, path)
                     : order \in DefaultOrders}}

GetNames == {name(s) : s \in RegisterInputs} \cup {UnknownName}

ScanPaths == {Root, Missing}

ScanPath(path) ==
    /\ \E r \in scan_path(tree, path) :
          /\ ret' = [Ret("scan_path") EXCEPT !.name = path, !.ok = r.ok,
                                              !.findings = r.findings]
          /\ scans' = IF r.ok
                      THEN <<[path |-> path, findings |-> r.findings]>>
                           \o (IF scans = <<>> THEN <<>> ELSE <<scans[1]>>)
                      ELSE <<>>
    /\ UNCHANGED <<ledger, app, tree, skills, iter, calls>>

(***************************** concurrent callers ************************)
Callers == 1..MaxCallers

Idle ==
    [pc |-> "idle", op |-> "", name |-> "", params |-> path_only(""),
     todo |-> <<>>, cur |-> "", work |-> <<>>, acc |-> <<>>, pairs |-> <<>>]

\* The units of work of one execute, in order: the files analyze_file is
\* called on, or for the filesystem detector the path itself.
units(s, t, sp) ==
    IF s = "filesystem" \/ is_file(sp.path) THEN <<sp.path>>
    ELSE LET files == SelectSeq(filter_ok(walker(t, sp.path, sp.recursive)),
                                LAMBDA e : e.is_file)
         IN [i \in 1..Len(files) |-> files[i].path]

unit_findings(s, t, u) ==
    IF s = "filesystem" THEN filesystem_analyze(t, u) ELSE analyze_file(s, t, u)

\* The findings vector lives in a field of the skill, shared by all callers.
frame_shared(c) == 1

\* `let mut findings = Vec::new()`: the vector an execute collects into
\* is a local of the call, one per caller.
frame(c) == c

\* A caller starts invoke(n, params): the lookup in the map.
BeginInvoke(c, n, params) ==
    /\ calls[c].pc \in {"idle", "done"}
    /\ calls' = [calls EXCEPT ![c] =
          IF n \in DOMAIN skills
          THEN [Idle EXCEPT !.pc = "next", !.op = "invoke", !.name = n,
                            !.params = params, !.todo = <<n>>]
          ELSE [Idle EXCEPT !.pc = "done", !.op = "invoke", !.name = n,
                            !.params = params,
                            !.pairs = <<[name |-> n,
                                         res |-> Err("InvalidParams",
                                                     "Unknown skill")]>>]]
    /\ UNCHANGED <<ledger, app, tree, skills, iter, ret, scans>>

\* A caller starts scan_all(path): the iterator over the map.
BeginScanAll(c, path) ==
    /\ calls[c].pc \in {"idle", "done"}
    /\ calls' = [calls EXCEPT ![c] =
          [Idle EXCEPT !.pc = IF iter = <<>> THEN "done" ELSE "next",
                       !.op = "scan_all", !.name = path,
                       !.params = path_only(path), !.todo = iter]]
    /\ UNCHANGED <<ledger, app, tree, skills, iter, ret, scans>>

\* The caller enters execute of the next skill: it returns at once (a
\* custom skill, or a failed check), or starts to collect findings.
Enter(c) ==
    /\ calls[c].pc = "next"
    /\ LET n == Head(calls[c].todo)
           s == skills[n]
           rest == Tail(calls[c].todo)
           early == s \in Custom \/ precheck(calls[c].params) # "none"
       IN IF early
          THEN \E r \in execute(s, tree, calls[c].params) :
                  calls' = [calls EXCEPT
                     ![c].pairs = @ \o <<[name |-> n, res |-> r.res]>>,
                     ![c].todo = rest,
                     ![c].pc = IF rest = <<>> THEN "done" ELSE "next"]
          ELSE calls' = [calls EXCEPT
                  ![c].cur = n, ![c].todo = rest, ![c].pc = "walk",
                  ![c].work = units(s, tree, from_value(calls[c].params)),
                  ![frame(c)].acc = <<>>]
    /\ UNCHANGED <<ledger, app, tree, skills, iter, ret, scans>>

\* One unit of work: its findings are appended to the vector; a panic in
\* it ends the caller's call.
Step(c) ==
    /\ calls[c].pc = "walk" /\ calls[c].work # <<>>
    /\ \E fs \in unit_findings(skills[calls[c].cur], tree, Head(calls[c].work)) :
          calls' = IF panicked(fs)
                   THEN [calls EXCEPT
                           ![c].pairs = @ \o <<[name |-> calls[c].cur,
                                                res |-> Unwound]>>,
                           ![c].cur = "", ![c].todo = <<>>, ![c].work = <<>>,
                           ![c].pc = "done"]
                   ELSE [calls EXCEPT ![c].work = Tail(@),
                                      ![frame(c)].acc = @ \o fs]
    /\ UNCHANGED <<ledger, app, tree, skills, iter, ret, scans>>

\* The end of execute: the threshold filter and SkillOutput::with_findings.
Leave(c) ==
    /\ calls[c].pc = "walk" /\ calls[c].work = <<>>
    /\ LET s == skills[calls[c].cur]
           out == Ok(with_findings(filter_threshold(calls[frame(c)].acc,
                                                    confidence_threshold(s))))
       IN calls' = [calls EXCEPT
             ![c].pairs = @ \o <<[name |-> calls[c].cur, res |-> out]>>,
             ![c].cur = "",
             ![c].pc = IF calls[c].todo = <<>> THEN "done" ELSE "next"]
    /\ UNCHANGED <<ledger, app, tree, skills, iter, ret, scans>>

\* The registry the callers share: two detectors registered before it is
\* shared, in either iteration order.
ConcTrees == {BaseTree, [BaseTree EXCEPT !.a = C_ips],
              [BaseTree EXCEPT !.b = C_svgcut]}
ConcDocs == {path_only(Root), path_only(Missing)}

ConcInit ==
    /\ tree \in ConcTrees
    /\ skills = insert(insert(EmptyMap, register_key("network"), "network"),
                       register_key("audio"), "audio")
    /\ iter \in Orders(DOMAIN skills)
    /\ ret = Ret("new")
    /\ scans = <<>>
    /\ calls = [c \in Callers |-> Idle]
    /\ ledger = NoLedger /\ app = NoApp

ConcNext ==
    \E c \in Callers :
       \/ \E n \in DOMAIN skills \cup {UnknownName}, params \in ConcDocs :
             BeginInvoke(c, n, params)
       \/ \E path \in {Root} : BeginScanAll(c, path)
       \/ Enter(c)
       \/ Step(c)
       \/ Leave(c)

ConcSpec == ConcInit /\ [][ConcNext]_vars

Init ==
    /\ calls = [c \in Callers |-> Idle]
    /\ ledger = NoLedger /\ app = NoApp
    /\ tree \in Trees
    /\ skills = EmptyMap
    /\ iter = <<>>
    /\ ret = Ret("new")
    /\ scans = <<>>

Next ==
    \/ New
    \/ \E s \in RegisterInputs : Register(s)
    \/ CreateDefault
    \/ \E n \in GetNames : Get(n)
    \/ List
    \/ \E n \in DOMAIN skills \cup {UnknownName}, params \in ParamDocs :
          Invoke(n, params)
    \/ \E path \in ScanPaths : ScanAll(path)
    \/ \E path \in ScanPaths : ScanPath(path)

Spec == Init /\ [][Next]_vars

(***************************** registry and schemas **********************)
\* The registry operations that do not touch the filesystem.
RegistryInit ==
    /\ calls = [c \in Callers |-> Idle]
    /\ ledger = NoLedger /\ app = NoApp
    /\ tree = BaseTree
    /\ skills = EmptyMap
    /\ iter = <<>>
    /\ ret = Ret("new")
    /\ scans = <<>>

RegistryNext ==
    \/ New
    \/ \E s \in RegisterInputs \cup {"filesystem"} : Register(s)
    \/ CreateDefault
    \/ List
    \/ Schemas
    \/ ExportSchemas
    \/ ExportToolSchemas

RegistrySpec == RegistryInit /\ [][RegistryNext]_vars

(***************************** single files ******************************)
\* The values of the numeric tokens explored: around every scaled constant,
\* the value itself and the values at and just past the tolerance on both
\* sides, and the three values of test_math_constant_detection.
SeedTokens ==
    {x \in UNION {LET E == KNOWN_CONSTANTS[pr[1]].scaled[pr[2]]
                      tol == tolerance(pr[2])
                  IN {E, big_add(E, tol), big_add(E, tol + 1),
                      abs_diff(E, big_of(tol)), abs_diff(E, big_of(tol + 1))}
                  : pr \in Range(ConstScalePairs)}
             \cup {<<1618, 33988>>, <<3141, 592653>>, <<1234, 567890>>}
       : x[1] < 1000000}

SeedFile(v) == Content(TRUE, "rs", "seed.rs", {}, <<>>, 0, <<v>>, <<>>)

\* The dotted quads explored: public addresses, the six safe addresses,
\* addresses inside and at the edges of the private ranges, zero-padded
\* spellings and quads with an octet above 255.
IpTokens ==
    {<<1, 2, 3, 4>>, <<8, 8, 8, 8>>, <<127, 0, 0, 1>>, <<0, 0, 0, 0>>,
     <<255, 255, 255, 255>>, <<192, 168, 0, 1>>, <<192, 168, 1, 1>>,
     <<10, 0, 0, 1>>, <<10, 1, 2, 3>>, <<172, 16, 0, 5>>, <<172, 31, 255, 255>>,
     <<172, 15, 0, 1>>, <<172, 32, 0, 5>>, <<192, 168, 7, 7>>, <<192, 169, 7, 7>>,
     <<127, 0, 0, 1001>>, <<1010, 1, 2, 3>>, <<10, 999, 1, 1>>, <<1, 2, 3, 1004>>}

IpFile(ips) == Content(TRUE, "txt", "hosts.txt", {}, ips, 0, <<>>, <<>>)

IpFiles ==
    {IpFile(<<x>>) : x \in IpTokens}
    \cup {IpFile(<<x, y>>) : x \in IpTokens, y \in IpTokens}
    \cup {C_ips}

\* Script files with every combination of a microphone token, a network
\* keyword, a Web Audio call and an ultrasonic frequency.
MicFiles ==
    {Content(TRUE, "js", "rec.js", sig, <<>>, 0, <<>>, <<>>)
        : sig \in SUBSET {"mic", "net_kw", "audio_api", "ultra_freq"}}

\* The dimension values explored: 0, 1, 2, 3, 64, 100, 2^32, 2^63, and two
\* values that do not fit u64: 2^64 and 2^64 + 1.
GridDims == {{}, {0}, {1}, {0, 1}, {6}, {2, 5, 6}, {32}, {63}, {64}, {0, 64}}

\* Files with one token AxB or AxBxC.
GridFiles ==
    {[C_plain EXCEPT !.grids = <<g>>]
        : g \in {<<x, y>> : x \in GridDims, y \in GridDims}
              \cup {<<x, y, z>> : x \in {{1}, {2, 5, 6}, {32}}, y \in GridDims,
                                    z \in {{0}, {32}, {64}}}}

\* The IEND signature with the first k bytes of its CRC.
IendCut(k) == SubSeq(IendChunk, 1, 5 + k)

\* Image files: a magic number or none, a body, an IEND chunk with all or
\* part of its CRC, and what follows: nothing, one byte, 128 bytes, or a
\* second IEND chunk and two bytes.
PngFiles ==
    {[Content(FALSE, "png", "image.png", {}, <<>>, 0, <<>>, <<>>)
        EXCEPT !.data = magic \o body \o IendCut(k) \o extra]
        : magic \in {PngMagic, <<<<255, 1>>, <<216, 1>>, <<255, 1>>>>,
                      <<<<66, 1>>, <<77, 1>>>>},
          body \in {<<>>, <<<<13, 8>>>>, <<<<0, 6>>>>},
          k \in 0..4,
          extra \in {<<>>, <<<<65, 1>>>>, <<<<65, 128>>>>,
                     IendChunk \o <<<<65, 2>>>>,
                     <<<<255, 1>>, <<217, 1>>, <<65, 2>>>>,
                     <<<<255, 1>>, <<217, 1>>>>}}

\* k zero runs of the length zlen, one non-zero byte after each, or after
\* each but the last.
RECURSIVE ZeroRuns(_, _, _)
ZeroRuns(k, zlen, closed) ==
    IF k = 0 THEN <<>>
    ELSE <<<<0, zlen>>>>
         \o (IF k = 1 /\ ~closed THEN <<>> ELSE <<<<7, 1>>>>)
         \o ZeroRuns(k - 1, zlen, closed)

\* Audio files: a header, non-zero filler, and zero runs.
WavFiles ==
    {[Content(FALSE, ext, "clip." \o ext, {}, <<>>, 0, <<>>, <<>>)
        EXCEPT !.data = <<<<82, h>>>> \o <<<<7, fill>>>> \o ZeroRuns(k, zlen, closed)]
        : ext \in {"wav", "mp3"},
          h \in {WavHeader},
          fill \in {0, 1, ZeroRunWindow - 620, ZeroRunWindow - 611,
                    ZeroRunWindow - 500},
          k \in 5..7,
          zlen \in {ZeroRunMin, ZeroRunMin + 1},
          closed \in BOOLEAN}
    \cup {[Content(FALSE, "wav", "clip.wav", {}, <<>>, 0, <<>>, <<>>)
             EXCEPT !.data = <<<<0, n>>>>] : n \in {WavHeader, WavHeader + 102}}

FileContents ==
    {SeedFile(v) : v \in SeedTokens} \cup IpFiles \cup MicFiles \cup GridFiles
    \cup PngFiles \cup WavFiles

FileSkills == {"cipher", "network", "audio", "stego"}

\* A default registry invoked on the single file /t/a.
FileInit ==
    /\ tree \in {[BaseTree EXCEPT !.a = x] : x \in FileContents}
    /\ skills = create_default_registry
    /\ iter \in {[i \in 1..Len(BuiltIn) |-> register_key(BuiltIn[i])]}
    /\ ret = Ret("create_default_registry")
    /\ scans = <<>>
    /\ calls = [c \in Callers |-> Idle]
    /\ ledger = NoLedger /\ app = NoApp

FileNext ==
    \E s \in FileSkills, params \in {path_only("/t/a")} :
       Invoke(register_key(s), params)

FileSpec == FileInit /\ [][FileNext]_vars

(***************************** directory walks ***************************)
\* The default registry invoked on directories that hold symbolic links,
\* unreadable files and files below the first level.
LinkSets ==
    {<<L1("/t/d", TRUE), L2("/t/d", TRUE)>>,
     <<L2("/t/a", TRUE), L1("/t/a", TRUE)>>,
     <<L1("/t/l2", TRUE), L2("/t/a", TRUE)>>,
     <<L1("/t/l2", TRUE), L2("/t/l1", TRUE)>>,
     <<L1("/t/gone", TRUE)>>,
     <<L1("/t/gone", FALSE)>>,
     <<L1("/t/l1", TRUE)>>,
     <<L1("/etc/passwd", TRUE)>>}

WalkTrees ==
    {[BaseTree EXCEPT !.links = ls] : ls \in LinkSets}
    \cup {[BaseTree EXCEPT !.b = x] : x \in {C_png, C_locked}}
    \cup {[BaseTree EXCEPT !.c = C_env],
          [BaseTree EXCEPT !.a = C_ips, !.b = C_locked, !.c = C_env],
          [BaseTree EXCEPT !.b = C_png, !.c = C_svgcut],
          [BaseTree EXCEPT !.c = C_env, !.links = <<L1("/t/d", TRUE)>>]}

WalkDocs ==
    {path_only(Root), path_only("/t/d"),
     Params("string", Root, "bool", TRUE), Params("string", Root, "bool", FALSE),
     FsParams(Root, 1, FALSE), FsParams(Root, 1, TRUE)}

WalkInit ==
    /\ tree \in WalkTrees
    /\ skills = create_default_registry
    /\ iter \in DefaultOrders
    /\ ret = Ret("create_default_registry")
    /\ scans = <<>>
    /\ calls = [c \in Callers |-> Idle]
    /\ ledger = NoLedger /\ app = NoApp

WalkNext ==
    \/ \E n \in DOMAIN skills, params \in WalkDocs : Invoke(n, params)
    \/ \E path \in {Root} : ScanAll(path)

WalkSpec == WalkInit /\ [][WalkNext]_vars

(***************************** screenshot collections ********************)
\* n files of one directory: numbered names around the given stem.
Files(n, stem, ext) == [i \in 1..n |-> <<ToString(i), "_", stem, ext>>]

PlainDir == <<"shots">>
DirNames == {PlainDir, <<"tmp">>, <<"TMP">>, <<"my", "data">>, <<".cache">>}
FileCounts == {4, 5, 6, 20, 21}

\* The directory listings explored: one directory of screenshots; a plain
\* directory followed or preceded by a suspicious one that holds one or two
\* more; files whose own name holds a suspicious word; files the pattern
\* does not match.
ShotTrees ==
    {[BaseTree EXCEPT !.more = <<Dir(d, Files(n, stem, ".png"))>>]
        : d \in DirNames, n \in FileCounts, stem \in {"screenshot", "Capture"}}
    \cup {[BaseTree EXCEPT !.more = <<Dir(PlainDir, Files(n, "scrn", ".jpg")),
                                     Dir(d, Files(k, "desktop1", ".PNG"))>>]
            : d \in DirNames \ {PlainDir}, n \in {3, 4, 5, 6}, k \in {1, 2}}
    \cup {[BaseTree EXCEPT !.more = <<Dir(d, Files(k, "display2", ".gif")),
                                     Dir(PlainDir, Files(n, "screencap", ".webp"))>>]
            : d \in DirNames \ {PlainDir}, n \in {4, 5}, k \in {1}}
    \cup {[BaseTree EXCEPT !.more =
               <<Dir(PlainDir, Files(n, "capture", ".png")
                               \o <<<<"data", "_", "capture", ".png">>>>)>>]
            : n \in {3, 4, 5}}
    \cup {[BaseTree EXCEPT !.more = <<Dir(d, Files(6, stem, ext))>>]
            : d \in {PlainDir, <<"tmp">>},
              stem \in {"notes", "screenshot"}, ext \in {".txt", ".png"}}

ShotInit ==
    /\ calls = [c \in Callers |-> Idle]
    /\ ledger = NoLedger /\ app = NoApp
    /\ tree \in ShotTrees
    /\ skills = create_default_registry
    /\ iter \in {[i \in 1..Len(BuiltIn) |-> register_key(BuiltIn[i])]}
    /\ ret = Ret("create_default_registry")
    /\ scans = <<>>

ShotNext ==
    \E p \in {Root, "/t/d"} :
       Invoke(register_key("filesystem"), path_only(p))

ShotSpec == ShotInit /\ [][ShotNext]_vars

(***************************** genesis ledger program ********************)
(* The accounts of the program: the genesis account (absent, or one      *)
(* record), the wallet accounts by address, and the token accounts of    *)
(* the user mint.  A u64 is the set of its one-bit positions, as in the  *)
(* cipher section.  An instruction that fails leaves every account as it *)
(* was.  Two properties of the build are fixed when the program is       *)
(* deployed: whether arithmetic overflow panics (overflow-checks) or     *)
(* wraps, and whether the framework rejects an instruction that names    *)
(* one account in two mutable positions or loads it twice and writes     *)
(* both copies back in the order of the accounts struct.  btc_checkpoint *)
(* and audit_event create accounts of their own and touch none of these. *)
(*************************************************************************)
\* Instructions run in one behaviour.
MaxTx == 4

\* 2^64 - 1
U64Max == {b \in 0..U64Bits : b < U64Bits}
u64(x) == {b \in x : b < U64Bits}

\* x < y
bit_lt(x, y) ==
    LET d == (x \cup y) \ (x \cap y)
    IN d # {} /\ (CHOOSE b \in d : \A c \in d : c <= b) \in y

\* x + y and x - y on u64: the low 64 bits and whether the result left them
add_u64(x, y) ==
    [value |-> u64(bit_add(x, y)), overflow |-> bit_add(x, y) # u64(bit_add(x, y))]
sub_u64(x, y) ==
    [value |-> u64(bit_add(bit_add(x, U64Max \ y), {0})), overflow |-> bit_lt(x, y)]

OsPaths == {"/bin"}
UserIds == {"alice", "bob"}
\* The token accounts of the user mint, and the owner of each.
TokenAccounts == {"ta_alice", "ta_bob"}
token_owner(ta) == IF ta = "ta_alice" THEN "alice" ELSE "bob"
\* 1, 3 and 2^63
MintValues == {{0}, {0, 1}, {63}}
\* 1 and 2
Amounts == {{0}, {1}}

\* seeds = [b"os_wallet", path] and [b"user_wallet", user_id]
os_wallet(path) == "os_wallet:" \o path
user_wallet(user_id) == "user_wallet:" \o user_id

Os == "Os"
User == "User"

\* The outcome of an instruction: the accounts after it and its result.
Done(l) == [l |-> l, ok |-> TRUE, err |-> "none"]
Fail(l, err) == [l |-> l, ok |-> FALSE, err |-> err]

\* initialize: `init` on the genesis address fails when the account exists.
genesis_initialize(l) ==
    IF l.genesis # <<>> THEN Fail(l, "AccountAlreadyInUse")
    ELSE Done([l EXCEPT !.genesis =
                 <<[total_os_supply |-> {}, total_user_supply |-> {},
                    total_wallets |-> {}, is_initialized |-> TRUE]>>])

\* token::mint_to on a mint whose authority signed: the supply is added
\* with a checked addition.
mint_to_ok(l, mint, value) == ~add_u64(l.supply[mint], value).overflow

\* The two additions at the end of both mint instructions.
count_mint(l, supply, value, wallets) ==
    LET total == add_u64(l.genesis[1][supply], value)
        count == add_u64(l.genesis[1].total_wallets, {0})
    IN IF l.checks /\ (total.overflow \/ count.overflow) THEN Fail(l, "panic")
       ELSE Done([l EXCEPT !.genesis[1][supply] = total.value,
                           !.genesis[1].total_wallets = count.value,
                           !.wallets = wallets,
                           !.mints = @ + 1])

mint_os_wallet(l, path, value) ==
    IF os_wallet(path) \in DOMAIN l.wallets THEN Fail(l, "AccountAlreadyInUse")
    ELSE IF l.genesis = <<>> THEN Fail(l, "AccountNotInitialized")
    ELSE IF ~mint_to_ok(l, "os", value) THEN Fail(l, "Overflow")
    ELSE count_mint([l EXCEPT !.supply.os = add_u64(@, value).value],
                    "total_os_supply", value,
                    l.wallets @@ (os_wallet(path) :>
                        [value |-> value, is_frozen |-> TRUE, wallet_type |-> Os]))

mint_user_wallet(l, user_id, value, to) ==
    IF user_wallet(user_id) \in DOMAIN l.wallets
    THEN Fail(l, "AccountAlreadyInUse")
    ELSE IF l.genesis = <<>> THEN Fail(l, "AccountNotInitialized")
    ELSE IF ~mint_to_ok(l, "user", value) THEN Fail(l, "Overflow")
    ELSE count_mint([l EXCEPT !.supply.user = add_u64(@, value).value,
                              !.tokens[to] = add_u64(@, value).value],
                    "total_user_supply", value,
                    l.wallets @@ (user_wallet(user_id) :>
                        [value |-> value, is_frozen |-> FALSE,
                         wallet_type |-> User]))

\* A check that lets every wallet through.
is_user_any(wallet) == TRUE

\* wallet.wallet_type == WalletType::User
is_user(wallet) == wallet.wallet_type = User

\* token::transfer signed by from_owner
token_transfer(l, from, to, from_owner, amount) ==
    IF token_owner(from) # from_owner THEN Fail(l, "OwnerMismatch")
    ELSE IF bit_lt(l.tokens[from], amount) THEN Fail(l, "InsufficientFunds")
    ELSE IF from = to THEN Done(l)
    ELSE Done([l EXCEPT !.tokens[from] = sub_u64(@, amount).value,
                        !.tokens[to] = add_u64(@, amount).value])

\* from_wallet and to_wallet are loaded from the accounts before the
\* handler runs and written back after it, from_wallet first.
transfer_user_tokens(l, from_wallet, to_wallet, from_token_account, to_token_account, from_owner, amount) ==
    IF l.dup_check /\ (from_wallet = to_wallet
                       \/ from_token_account = to_token_account)
    THEN Fail(l, "ConstraintDuplicateMutableAccount")
    ELSE IF ~is_user(l.wallets[from_wallet]) THEN Fail(l, "InvalidWalletType")
    ELSE IF ~is_user(l.wallets[to_wallet]) THEN Fail(l, "InvalidWalletType")
    ELSE LET paid == token_transfer(l, from_token_account, to_token_account,
                                    from_owner, amount)
             debit == sub_u64(l.wallets[from_wallet].value, amount)
             credit == add_u64(l.wallets[to_wallet].value, amount)
         IN IF ~paid.ok THEN Fail(l, paid.err)
            ELSE IF l.checks /\ (debit.overflow \/ credit.overflow)
            THEN Fail(l, "panic")
            ELSE Done([paid.l EXCEPT
                         !.wallets = [[@ EXCEPT ![from_wallet].value = debit.value]
                                         EXCEPT ![to_wallet].value = credit.value]])

\* One instruction was processed: its outcome becomes the ledger, with a
\* record of the instruction and of the wallets before it.
Processed(r, op, from, to, amount) ==
    /\ ledger.txs < MaxTx
    /\ ledger' = [r.l EXCEPT !.txs = @ + 1,
                             !.last = [op |-> op, ok |-> r.ok, err |-> r.err,
                                       from |-> from, to |-> to,
                                       amount |-> amount,
                                       before |-> [genesis |-> ledger.genesis,
                                                   wallets |-> ledger.wallets]]]
    /\ UNCHANGED <<firewall_vars, app>>

GenesisInitialize ==
    Processed(genesis_initialize(ledger), "initialize", "", "", {})

MintOsWallet(path, value) ==
    Processed(mint_os_wallet(ledger, path, value), "mint_os_wallet",
              "", os_wallet(path), value)

MintUserWallet(user_id, value, to) ==
    Processed(mint_user_wallet(ledger, user_id, value, to), "mint_user_wallet",
              "", user_wallet(user_id), value)

TransferUserTokens(from_wallet, to_wallet, from_ta, to_ta, from_owner, amount) ==
    Processed(transfer_user_tokens(ledger, from_wallet, to_wallet, from_ta,
                                   to_ta, from_owner, amount),
              "transfer_user_tokens", from_wallet, to_wallet, amount)

NoTx == [op |-> "none", ok |-> TRUE, err |-> "none", from |-> "", to |-> "",
         amount |-> {}, before |-> NoLedger]

LedgerInit ==
    /\ ledger \in {[checks |-> c, dup_check |-> d, genesis |-> <<>>,
                     wallets |-> <<>>, supply |-> [os |-> {}, user |-> {}],
                     tokens |-> [ta \in TokenAccounts |-> {}],
                     mints |-> 0, txs |-> 0, last |-> NoTx]
                       : c \in BOOLEAN, d \in BOOLEAN}
    /\ app = NoApp
    /\ tree = BaseTree
    /\ skills = EmptyMap
    /\ iter = <<>>
    /\ ret = Ret("new")
    /\ scans = <<>>
    /\ calls = [c \in Callers |-> Idle]

LedgerNext ==
    \/ GenesisInitialize
    \/ \E path \in OsPaths, value \in MintValues : MintOsWallet(path, value)
    \/ \E user_id \in UserIds, value \in MintValues, to \in TokenAccounts :
          MintUserWallet(user_id, value, to)
    \/ \E from_wallet \in DOMAIN ledger.wallets, to_wallet \in DOMAIN ledger.wallets,
          from_ta \in TokenAccounts, to_ta \in TokenAccounts,
          from_owner \in UserIds, amount \in Amounts :
          TransferUserTokens(from_wallet, to_wallet, from_ta, to_ta,
                             from_owner, amount)

LedgerSpec == LedgerInit /\ [][LedgerNext]_vars

(***************************** desktop backend ***************************)
(* The Tauri backend (src/apps/tauri): AppState holds xor_chain,          *)
(* graph_nodes, boot_xor and initialized, each behind its own Mutex.  A   *)
(* command holds a mutex for one statement, except process_interaction,   *)
(* which holds the chain's mutex from reading the last entry until        *)
(* drop(chain); each such region is one step here, and steps of commands  *)
(* that run at the same time interleave.  A u32 is the set of the         *)
(* positions of its one bits; a String of hex digits is the sequence of   *)
(* its characters; an Option is a sequence of at most one element.        *)
MaxCommands == 3
Commands == 1..MaxCommands

U32Bits == 32
XorMask == {b \in 0..U32Bits : b < 12}
HexDigits == <<"0", "1", "2", "3", "4", "5", "6", "7",
               "8", "9", "A", "B", "C", "D", "E", "F">>

bit_xor(x, y) == (x \cup y) \ (x \cap y)

\* The value of the four bits of x from position 4 * k.
nibble(x, k) ==
    SeqSum([i \in 1..4 |-> IF 4 * k + i - 1 \in x THEN 2 ^ (i - 1) ELSE 0])

\* format!("{:03X}", x): upper-case hex digits, padded with zeros to three.
format_03X(x) ==
    LET top == IF x = {} THEN 0
               ELSE (CHOOSE b \in x : \A i \in x : i <= b) \div 4
        RECURSIVE digits(_)
        digits(k) == <<HexDigits[nibble(x, k) + 1]>>
                     \o (IF k = 0 THEN <<>> ELSE digits(k - 1))
    IN digits(IF top < 2 THEN 2 ELSE top)

\* u32::from_str_radix(p, 16).ok(): None for the empty string and for a
\* value that does not fit 32 bits.
from_str_radix(p) ==
    LET value(ch) == (CHOOSE v \in 1..16 : HexDigits[v] = ch) - 1
        bits == {4 * (Len(p) - k) + i :
                    k \in {j \in 1..Len(p) : value(p[j]) # 0}, i \in 0..3}
        x == {b \in bits :
                 LET k == Len(p) - (b \div 4)
                 IN (value(p[k]) \div (2 ^ (b % 4))) % 2 = 1}
    IN IF p = <<>> \/ \E b \in x : b >= U32Bits THEN <<>> ELSE <<x>>

\* The first four bytes of SHA-256 of the state text, as a big-endian u32.
sha256_head(state) ==
    CASE state = "" ->
            {1, 6, 10, 14, 15, 20, 21, 23, 24, 25, 29, 30, 31}
      [] state = "analyze this" ->
            {2, 4, 5, 6, 7, 8, 10, 11, 12, 14, 16, 21, 27, 28, 29, 30, 31}
      [] state = "boot:1700000000" ->
            {2, 5, 6, 9, 12, 16, 21, 22, 23, 25, 26, 28, 29, 30}

\* generate_xor; now is the clock's milliseconds cut to u32.
generate_xor(state, now, previous) ==
    LET state_part == sha256_head(state)
        time_part == now
        parsed == IF previous = <<>> THEN <<>> ELSE from_str_radix(previous[1])
        prev_part == IF parsed = <<>> THEN {} ELSE parsed[1]
    IN format_03X(bit_xor(bit_xor(state_part, time_part), prev_part) \cap XorMask)

\* chain.last()
last(chain) == IF chain = <<>> THEN <<>> ELSE <<chain[Len(chain)]>>

\* The route of a prompt, given as the pieces its words are matched by:
\* prompt.len() > 100 || prompt.contains("redesign") || prompt.contains("analyze")
route(prompt) ==
    IF \/ Len(Join(prompt)) > 100
       \/ "redesign" \in Range(prompt)
       \/ "analyze" \in Range(prompt)
    THEN "claude" ELSE "tiny"

NoCommand ==
    [pc |-> "idle", op |-> "", prompt |-> <<>>, previous |-> <<>>, xor |-> <<>>,
     route |-> ""]

\* The clock readings and prompts explored.  A prompt of None is "".
Clocks == {{}, {0, 12}}
Prompts == {<<>>, <<"analyze", " this">>}
BootStates == {"boot:1700000000"}

\* A started command: what it runs and what it computed so far.
step(c, command) ==
    [app EXCEPT !.commands[c] = command]

\* initialize, line 87-90: the boot XOR is generated and stored.
InitializeBoot(c, boot_state, now) ==
    /\ app.commands[c].pc = "idle"
    /\ LET xor == generate_xor(boot_state, now, <<>>)
       IN app' = [step(c, [NoCommand EXCEPT !.pc = "push", !.op = "initialize",
                                            !.xor = xor])
                     EXCEPT !.boot_xor = xor]
    /\ UNCHANGED <<firewall_vars, ledger>>

\* process_interaction, line 121-125: under the chain's mutex the last
\* entry is read and the new XOR generated from it.
ProcessRead(c, prompt, now) ==
    /\ app.commands[c].pc = "idle"
    /\ LET previous == last(app.xor_chain)
       IN app' = step(c, [NoCommand EXCEPT
                            !.pc = "push", !.op = "process_interaction",
                            !.prompt = prompt, !.previous = previous,
                            !.xor = generate_xor(Join(prompt), now, previous)])
    /\ UNCHANGED <<firewall_vars, ledger>>

\* line 91 and line 128: the XOR is pushed under the chain's mutex, taken
\* anew.  made records, for each entry, the command and the previous it
\* was generated with.
Push(c) ==
    /\ app.commands[c].pc = "push"
    /\ app' = [step(c, [app.commands[c] EXCEPT !.pc = "finish"])
                 EXCEPT !.xor_chain = Append(@, app.commands[c].xor),
                        !.made = Append(@, [op |-> app.commands[c].op,
                                            previous |-> app.commands[c].previous])]
    /\ UNCHANGED <<firewall_vars, ledger>>

\* initialize, line 92-103: the flag is set and the Status returned.
InitializeDone(c) ==
    /\ app.commands[c].pc = "finish" /\ app.commands[c].op = "initialize"
    /\ app' = [step(c, [app.commands[c] EXCEPT !.pc = "done"])
                 EXCEPT !.initialized = TRUE,
                        !.completed.initialize = @ + 1]
    /\ UNCHANGED <<firewall_vars, ledger>>

\* process_interaction, line 131-148: the node counter is incremented
\* under its mutex, the route chosen and the ProcessResult returned.  The
\* u32 counter stays below MaxCommands, far from its width.
ProcessCount(c) ==
    /\ app.commands[c].pc = "finish"
    /\ app.commands[c].op = "process_interaction"
    /\ app' = [step(c, [app.commands[c] EXCEPT
                          !.pc = "done",
                          !.route = route(app.commands[c].prompt)])
                 EXCEPT !.graph_nodes = @ + 1,
                        !.completed.process_interaction = @ + 1]
    /\ UNCHANGED <<firewall_vars, ledger>>

\* main, line 235-240: the managed AppState.
DesktopInit ==
    /\ app = [started |-> TRUE, xor_chain |-> <<>>, made |-> <<>>,
              graph_nodes |-> 0, boot_xor |-> <<>>, initialized |-> FALSE,
              commands |-> [c \in Commands |-> NoCommand],
              completed |-> [initialize |-> 0, process_interaction |-> 0]]
    /\ ledger = NoLedger
    /\ tree = BaseTree
    /\ skills = EmptyMap
    /\ iter = <<>>
    /\ ret = Ret("new")
    /\ scans = <<>>
    /\ calls = [c \in Callers |-> Idle]

DesktopNext ==
    \/ \E c \in Commands, boot_state \in BootStates, now \in Clocks :
          InitializeBoot(c, boot_state, now)
    \/ \E c \in Commands, prompt \in Prompts, now \in Clocks :
          ProcessRead(c, prompt, now)
    \/ \E c \in Commands : Push(c)
    \/ \E c \in Commands : InitializeDone(c)
    \/ \E c \in Commands : ProcessCount(c)

DesktopSpec == DesktopInit /\ [][DesktopNext]_vars




(***************************** Properties ********************************)
\* The Ok outputs the last operation returned, with the skill of each.
OkOutputs ==
    IF ret.op = "invoke" /\ ret.res.ok
    THEN {[skill |-> ret.skill, output |-> ret.res.output]}
    ELSE IF ret.op = "scan_all"
    THEN {[skill |-> skills[ret.pairs[i].name], output |-> ret.pairs[i].res.output]
          : i \in {j \in 1..Len(ret.pairs) : ret.pairs[j].res.ok}}
    ELSE {}

\* C1: every finding in an Ok result of execute has a confidence between
\* the skill's threshold (0.70 for the nine detectors) and 1.0, and the
\* findings are exactly the candidates that reach the threshold: the
\* candidates below it are dropped, in invoke, scan_all and scan_path.
C1_ThresholdBounds ==
    /\ \A o \in OkOutputs :
          \A i \in 1..Len(o.output.findings) :
             /\ o.output.findings[i].confidence >= 70
             /\ o.output.findings[i].confidence <= 100
    /\ ret.op = "invoke" /\ ret.res.ok =>
          ret.res.output.findings
             = SelectSeq(ret.cand, LAMBDA f : f.confidence >= 70)
    /\ ret.op = "scan_path" =>
          \A i \in 1..Len(ret.findings) :
             ret.findings[i].confidence \in 70..100

\* An Ok invoke that kept a finding and dropped a candidate.
C1_Witness ==
    /\ ret.op = "invoke" /\ ret.res.ok
    /\ ret.res.output.findings # <<>>
    /\ Len(ret.cand) > Len(ret.res.output.findings)

\* C2: the list scan_path returns is ordered by severity, highest first,
\* and within one severity by confidence, highest first, whatever the
\* order in which the registry was visited.
C2_ScanPathSorted ==
    ret.op = "scan_path" /\ ret.ok =>
       \A i, j \in 1..Len(ret.findings) :
          i < j =>
             \/ ret.findings[i].severity > ret.findings[j].severity
             \/ /\ ret.findings[i].severity = ret.findings[j].severity
                /\ ret.findings[i].confidence >= ret.findings[j].confidence

\* A scan_path result with several severities and, within one severity,
\* several confidences.
C2_Witness ==
    /\ ret.op = "scan_path" /\ ret.ok
    /\ Cardinality({ret.findings[i].severity : i \in 1..Len(ret.findings)}) >= 3
    /\ \E i, j \in 1..Len(ret.findings) :
          /\ ret.findings[i].severity = ret.findings[j].severity
          /\ ret.findings[i].confidence > ret.findings[j].confidence

\* C3: a failing skill is isolated.  scan_all returns one pair per
\* registered skill, each holding a result of that skill on the path, so
\* an Err does not keep the other skills from running; scan_path returns
\* Ok, every finding it lists comes from an Ok result of a detector, and on
\* a path that does not exist, where every detector fails, the list is empty.
C3_FailureIsolated ==
    /\ ret.op = "scan_all" =>
          /\ Len(ret.pairs) = Cardinality(DOMAIN skills)
          /\ {ret.pairs[i].name : i \in 1..Len(ret.pairs)} = DOMAIN skills
          /\ \A i \in 1..Len(ret.pairs) :
                ret.pairs[i].res \in
                   {r.res : r \in execute(skills[ret.pairs[i].name], tree,
                                          path_only(ret.name))}
    /\ ret.op = "scan_path" =>
          /\ ret.ok
          /\ \A i \in 1..Len(ret.findings) :
                \E k \in 1..Len(BuiltIn) :
                   \E r \in execute(BuiltIn[k], tree, path_only(ret.name)) :
                      /\ r.res.ok
                      /\ ret.findings[i] \in Range(r.res.output.findings)
          /\ ret.name \notin Paths => ret.findings = <<>>

\* C4: the confidence of a SkillOutput is the mean of the confidences of
\* its findings, and 1.0 when it has none.
C4_MeanConfidence ==
    \A o \in OkOutputs :
       IF o.output.findings = <<>>
       THEN o.output.confidence.num = 100 * o.output.confidence.den
       ELSE o.output.confidence.num * Len(o.output.findings)
               = o.output.confidence.den
                    * SeqSum([i \in 1..Len(o.output.findings) |->
                                 o.output.findings[i].confidence])

\* An Ok output whose findings differ in confidence.
C4_Witness ==
    /\ ret.op = "invoke" /\ ret.res.ok
    /\ \E i, j \in 1..Len(ret.res.output.findings) :
          ret.res.output.findings[i].confidence
             # ret.res.output.findings[j].confidence


\* C5: list() holds every registered name once; get(n) of a registered
\* name returns a skill whose name() is n; the list scan_all returns has
\* one pair per name; and the default registry holds exactly the nine
\* detector names.
C5_DistinctNames ==
    /\ ret.op = "list" =>
          /\ Len(ret.names) = Cardinality(DOMAIN skills)
          /\ Range(ret.names) = DOMAIN skills
    /\ \A n \in DOMAIN skills : name(skills[n]) = n
    /\ ret.op = "get" =>
          /\ ret.found = (ret.name \in DOMAIN skills)
          /\ ret.found => name(ret.skill) = ret.name
    /\ ret.op = "scan_all" /\ ret.ok =>
          \A n \in DOMAIN skills :
             Cardinality({i \in 1..Len(ret.pairs) : ret.pairs[i].name = n}) = 1
    /\ ret.op = "create_default_registry" =>
          DOMAIN skills
             = {"detect_cipher_patterns", "detect_steganography",
                "detect_obfuscation", "detect_network_patterns",
                "detect_temporal_attacks", "detect_audio_channels",
                "detect_injection_attacks", "detect_svg_injection",
                "detect_filesystem_threats"}

\* list() on a registry that several register calls built, one of them a
\* second registration of a name already present.
C5_Witness ==
    /\ ret.op = "list"
    /\ Len(ret.names) >= 2
    /\ \E n \in DOMAIN skills : skills[n] \in Custom

\* C6: registering a skill under a name already present replaces the
\* entry: the map holds the new skill under that name, the name stays once
\* in list(), every other entry is as before, and get and invoke use the
\* skill the map holds.
C6_RegisterOverwrites ==
    /\ ret.op = "register" =>
          /\ DOMAIN skills = DOMAIN ret.before \cup {name(ret.skill)}
          /\ skills[name(ret.skill)] = ret.skill
          /\ \A n \in DOMAIN ret.before :
                n # name(ret.skill) => skills[n] = ret.before[n]
          /\ Cardinality({i \in 1..Len(iter) : iter[i] = name(ret.skill)}) = 1
          /\ Len(iter) = Cardinality(DOMAIN skills)
    /\ ret.op = "get" /\ ret.found => ret.skill = skills[ret.name]
    /\ ret.op = "invoke" /\ ret.name \in DOMAIN skills =>
          /\ ret.skill = skills[ret.name]
          /\ ret.res \in {r.res : r \in execute(ret.skill, tree, ret.params)}

\* A register call that replaced a different skill of the same name while
\* another entry was present.
C6_Witness ==
    /\ ret.op = "register"
    /\ name(ret.skill) \in DOMAIN ret.before
    /\ ret.before[name(ret.skill)] # ret.skill
    /\ Cardinality(DOMAIN skills) >= 2

\* C7: invoke on a detector or an unknown name returns Err(InvalidParams)
\* in three cases, met in this order: the name is not registered, the
\* parameters do not deserialize, the path does not exist.  In every other
\* case it returns Ok; no other error kind is returned.
C7_InvalidParamsLadder ==
    ret.op = "invoke" /\ ret.skill \notin Custom =>
       LET expected ==
               IF ret.name \notin DOMAIN skills THEN "Unknown skill"
               ELSE IF ~(ret.params.pathTag = "string"
                         /\ ret.params.recTag \in {"absent", "bool"})
               THEN "Failed to parse scan params"
               ELSE IF ret.params.path \notin Paths THEN "Path does not exist"
               ELSE "none"
       IN IF expected = "none" THEN ret.res.ok
          ELSE /\ ~ret.res.ok
               /\ ret.res.err = "InvalidParams"
               /\ ret.res.msg = expected

\* C8: the output of an Ok execute of a detector has complete = false when
\* an entry could not be read in the middle of the directory walk, and
\* complete = true when the whole walk succeeded.
C8_CompleteIffWalkSucceeded ==
    ret.op = "invoke" /\ ret.res.ok /\ ret.skill \in Range(BuiltIn) =>
       LET sp == from_value(ret.params)
           items == IF ret.skill = "filesystem"
                    THEN WalkDir(tree, sp.path, FsMaxDepth)
                    ELSE IF is_file(sp.path) THEN <<>>
                    ELSE walker(tree, sp.path, sp.recursive)
       IN ret.res.output.complete = (\A i \in 1..Len(items) : items[i].ok)

\* C9: two consecutive calls of scan_path on the same path return the same
\* finding records, each the same number of times (both lists are sorted,
\* so they can differ only in the order of findings of equal severity and
\* confidence).
C9_ScanPathDeterministic ==
    Len(scans) = 2 /\ scans[1].path = scans[2].path =>
       \A f \in Range(scans[1].findings) \cup Range(scans[2].findings) :
          Cardinality({i \in 1..Len(scans[1].findings) : scans[1].findings[i] = f})
             = Cardinality({i \in 1..Len(scans[2].findings) :
                               scans[2].findings[i] = f})


\* C10: under ConcSpec, whatever the interleaving of the callers on the
\* shared registry, a finished invoke holds a result invoke returns when
\* run alone, a finished scan_all holds a list scan_all returns when run
\* alone, and no step changes the registry, its iteration order or the tree.
C10_Reentrant ==
    /\ [](\A c \in Callers :
             calls[c].pc = "done" =>
                IF calls[c].op = "invoke"
                THEN /\ Len(calls[c].pairs) = 1
                     /\ calls[c].pairs[1].res \in
                           {r.res : r \in invoke(skills, tree, calls[c].name,
                                                 calls[c].params)}
                ELSE calls[c].pairs \in scan_all(skills, iter, tree, calls[c].name))
    /\ [][skills' = skills /\ iter' = iter /\ tree' = tree]_vars

\* One caller has finished with findings while another is in the middle of
\* a walk with findings collected.
C10_Witness ==
    \E c, d \in Callers :
       /\ c # d
       /\ calls[c].pc = "done"
       /\ \E i \in 1..Len(calls[c].pairs) :
             calls[c].pairs[i].res.ok
             /\ calls[c].pairs[i].res.output.findings # <<>>
       /\ calls[d].pc = "walk" /\ calls[d].work # <<>> /\ calls[d].acc # <<>>


\* The detectors that have analyze_file and analyze_directory.
FileDetectors == {"cipher", "stego", "obfuscation", "network", "temporal",
                  "audio", "injection", "svg"}

\* The regular files a walk from p reaches at depth <= maxd, in walk order.
RegularFiles(t, p, maxd) ==
    LET w == SelectSeq(WalkDir(t, p, TreeDepth),
                       LAMBDA e : e.ok /\ e.is_file /\ e.depth <= maxd)
    IN [i \in 1..Len(w) |-> w[i].path]

repaired(t, p) ==
    CASE p = "/t/a" -> [t EXCEPT !.a = C_plain]
      [] p = "/t/b" -> [t EXCEPT !.b = C_plain]
      [] p = "/t/d/c" -> [t EXCEPT !.c = C_plain]
      [] OTHER -> t

\* The finding types of the checks that read a file as bytes (fs::read).
ByteChecks == {"eof_hidden_data", "audio_anomaly"}

WellFormedSchema(v) ==
    /\ DOMAIN v = {"name", "description", "parameters"}
    /\ v.parameters.type = "object"
    /\ \A i \in 1..Len(v.parameters.required) :
          v.parameters.required[i] \in DOMAIN v.parameters.properties

\* C13: every schema that schemas / export_schemas returns has the keys
\* name, description and parameters, parameters.type "object" and a
\* required list drawn from the keys of parameters.properties; the export
\* holds exactly one schema per registered skill, whose name is that
\* skill's name(), with version "1.0" and format
\* "openai_function_calling".
C13_SchemaShape ==
    /\ ret.op \in {"schemas", "export_schemas"} =>
          /\ Len(ret.value.skills) = Cardinality(DOMAIN skills)
          /\ \A n \in DOMAIN skills :
                Cardinality({i \in 1..Len(ret.value.skills) :
                                ret.value.skills[i].name = name(skills[n])}) = 1
          /\ \A i \in 1..Len(ret.value.skills) :
                /\ WellFormedSchema(ret.value.skills[i])
                /\ \E n \in DOMAIN skills :
                      /\ ret.value.skills[i].name = name(skills[n])
                      /\ ret.value.skills[i].description = description(skills[n])
    /\ ret.op = "export_tool_schemas" =>
          /\ Len(ret.value.skills) = Len(BuiltIn)
          /\ \A k \in 1..Len(BuiltIn) :
                \E i \in 1..Len(ret.value.skills) :
                   /\ ret.value.skills[i].name = name(BuiltIn[k])
                   /\ WellFormedSchema(ret.value.skills[i])
    /\ ret.op \in {"export_schemas", "export_tool_schemas"} =>
          /\ DOMAIN ret.value = {"skills", "version", "format"}
          /\ ret.value.version = "1.0"
          /\ ret.value.format = "openai_function_calling"

\* An export of a registry in which a second skill was registered under
\* the name of the first, next to another skill.
C13_Witness ==
    /\ ret.op = "export_schemas"
    /\ Len(ret.value.skills) = 2
    /\ \E n \in DOMAIN skills : skills[n] = "shadow_network"


\* The math_constant_seed candidates of the last invoke.
Seeds == SelectSeq(ret.cand, LAMBDA f : f.finding_type = "math_constant_seed")

\* The last operation ran the cipher detector on a file with one numeric
\* token.
SeedCase ==
    /\ ret.op = "invoke" /\ ret.skill = "cipher" /\ ret.params = path_only("/t/a")
    /\ Len(tree.a.nums) = 1

\* What the three values of test_math_constant_detection yield.
SeedExamples ==
    /\ tree.a.nums[1] = <<1618, 33988>> =>
          /\ Len(Seeds) = 1
          /\ Seeds[1].value[2] = "phi" /\ Seeds[1].value[3] = "1e9"
          /\ Seeds[1].severity = High
    /\ tree.a.nums[1] = <<3141, 592653>> => Seeds # <<>>
    /\ tree.a.nums[1] = <<1234, 567890>> => Seeds = <<>>

\* C14 (as amended): the value v of a 6-12 digit token is reported as a
\* math_constant_seed iff some constant c and scale s of the tables satisfy
\* |v - trunc(c*s)| <= s/1000, where trunc(c*s) is the product cut to an
\* integer, not rounded; the finding is then unique, names the first such
\* (c, s) in table order and has confidence 1 - diff/(tolerance+1) with
\* diff = |v - trunc(c*s)|; 1618033988 gives one finding with constant phi
\* and scale 1e9, 3141592653 matches and 1234567890 does not.
C14_SeedMatchTruncated ==
    SeedCase =>
       LET v == tree.a.nums[1]
           near(pr) == big_le(abs_diff(v, KNOWN_CONSTANTS[pr[1]].scaled[pr[2]]),
                              big_of(tolerance(pr[2])))
           hits == SelectSeq(ConstScalePairs, near)
       IN /\ (Seeds # <<>>) <=> (hits # <<>>)
          /\ Len(Seeds) <= 1
          /\ Seeds # <<>> =>
                LET pr == Head(hits)
                    d == abs_diff(v, KNOWN_CONSTANTS[pr[1]].scaled[pr[2]])
                    diff == (d[1] * 1000000) + d[2]
                    t == tolerance(pr[2])
                IN /\ Seeds[1].value = <<big_string(v), KNOWN_CONSTANTS[pr[1]].name,
                                         SCALES[pr[2]].e>>
                   /\ t <= 10000000 =>
                         Seeds[1].confidence
                            = (ConfOne * (t + 1 - diff)) \div (t + 1)
                   /\ Seeds[1].confidence = seed_confidence(diff, t)
          /\ SeedExamples

\* A token one tolerance below a truncated product was reported.
C14_Witness ==
    /\ SeedCase /\ Seeds # <<>>
    /\ tree.a.nums[1] = abs_diff(KNOWN_CONSTANTS[1].scaled[5], big_of(tolerance(5)))

\* C14 as stated: the value is reported iff it lies within s/1000 of the
\* rounded product round(c*s) for some constant and scale.
C14_SeedMatchRounded ==
    SeedCase =>
       ((Seeds # <<>>) <=>
           \E pr \in Range(ConstScalePairs) :
              big_le(abs_diff(tree.a.nums[1], rounded(pr[1], pr[2])),
                     big_of(tolerance(pr[2]))))


\* The last operation ran the filesystem detector on /t.
FsCase ==
    /\ ret.op = "invoke" /\ ret.skill = "filesystem" /\ ret.res.ok
    /\ ret.params.path = Root

\* The findings of one type the filesystem detector returned.
FsFound(ft) ==
    SelectSeq(ret.res.output.findings, LAMBDA f : f.finding_type = ft)

\* C15: within one execute of the filesystem detector a symbolic link is
\* reported as symlink_circular (confidence 0.95, severity High) exactly
\* when its target canonicalizes to a path that a symbolic link visited
\* earlier in the same walk resolved to; the first link resolving to a
\* target is never reported, and nothing is remembered from earlier calls.
C15_SymlinkCircular ==
    FsCase =>
       LET links == tree.links
           seen_before(k) ==
               {canonicalize(tree, links[j].path).path :
                   j \in {i \in 1..(k - 1) : canonicalize(tree, links[i].path).ok}}
           circular(k) ==
               /\ links[k].read_link
               /\ canonicalize(tree, links[k].target).ok
               /\ canonicalize(tree, links[k].target).path \in seen_before(k)
           expected == SelectSeq([k \in 1..Len(links) |-> k], circular)
           found == FsFound("symlink_circular")
       IN /\ Len(found) = Len(expected)
          /\ \A i \in 1..Len(found) :
                /\ found[i].location = links[expected[i]].path
                /\ found[i].confidence = 95 /\ found[i].severity = High
          /\ \A k \in 1..Len(links) :
                seen_before(k) = {} =>
                   \A i \in 1..Len(found) : found[i].location # links[k].path

\* Two links resolve to the same file; the second one was reported.
C15_Witness ==
    /\ FsCase /\ Len(tree.links) = 2
    /\ Len(FsFound("symlink_circular")) = 1
    /\ FsFound("symlink_circular")[1].location = tree.links[2].path


\* The last operation ran the network detector on the file /t/a.
IpCase ==
    /\ ret.op = "invoke" /\ ret.skill = "network" /\ ret.res.ok
    /\ ret.params = path_only("/t/a")

\* The addresses the claim excludes: the six listed ones, and every valid
\* address of 10/8, 172.16/12 and 192.168/16.
Excluded(ip) ==
    \/ ip_string(ip) \in {"127.0.0.1", "0.0.0.0", "255.255.255.255",
                           "192.168.0.1", "192.168.1.1", "10.0.0.1"}
    \/ /\ \A i \in 1..4 : octet_value(ip[i]) \in 0..255
       /\ \/ octet_value(ip[1]) = 10
          \/ octet_value(ip[1]) = 172 /\ octet_value(ip[2]) \in 16..31
          \/ octet_value(ip[1]) = 192 /\ octet_value(ip[2]) = 168

\* C16: for a file the network detector returns at most one
\* hardcoded_public_ip finding (confidence 0.7, severity Medium), and
\* returns it iff some dotted quad of the content is not excluded; its ips
\* list has no duplicates and holds exactly the dotted quads that are not
\* excluded, count is its length, and none of its entries is one of the
\* six safe addresses or an address of 10/8, 172.16/12 or 192.168/16;
\* content with 1.2.3.4 and 127.0.0.1 lists 1.2.3.4 only.
C16_HardcodedPublicIps ==
    IpCase =>
       LET toks == tree.a.ips
           found == SelectSeq(ret.res.output.findings,
                              LAMBDA f : f.finding_type = "hardcoded_public_ip")
           kept == {ip_string(toks[i]) :
                       i \in {j \in 1..Len(toks) : ~Excluded(toks[j])}}
       IN /\ Len(found) <= 1
          /\ (found # <<>>) <=> (kept # {})
          /\ found # <<>> =>
                LET v == found[1].value
                    n == Len(v) - 1
                IN /\ found[1].confidence = 70 /\ found[1].severity = Medium
                   /\ \A i, j \in 1..n : i # j => v[i] # v[j]
                   /\ v[n + 1] = ToString(n)
                   /\ {v[i] : i \in 1..n} = kept
                   /\ \A i \in 1..n :
                         \A k \in 1..Len(toks) :
                            ip_string(toks[k]) = v[i] => ~Excluded(toks[k])
          /\ toks = <<<<1, 2, 3, 4>>, <<127, 0, 0, 1>>>> =>
                /\ Len(found) = 1
                /\ found[1].value = <<"1.2.3.4", "1">>

\* A file with a public and a private address: one finding listing the
\* public one.
C16_Witness ==
    /\ IpCase
    /\ tree.a.ips = <<<<8, 8, 8, 8>>, <<172, 16, 0, 5>>>>
    /\ \E i \in 1..Len(ret.res.output.findings) :
          ret.res.output.findings[i].value = <<"8.8.8.8", "1">>


\* The last operation ran the audio detector on the file /t/a, which holds
\* a microphone token.
MicCase ==
    /\ ret.op = "invoke" /\ ret.skill = "audio" /\ ret.res.ok
    /\ ret.params = path_only("/t/a")
    /\ Has(tree.a, "mic")

MicFindings(findings) ==
    SelectSeq(findings, LAMBDA f : f.finding_type = "microphone_access")

\* C17 (as amended): on a file with a microphone token detect_mic_access
\* produces exactly one microphone_access candidate, Critical / 0.85 when
\* the file also holds a network token and Medium / 0.6 otherwise; execute
\* returns that finding in the first case only, because 0.6 is below the
\* 0.70 threshold.
C17_MicLadder ==
    MicCase =>
       LET cand == MicFindings(ret.cand)
           out == MicFindings(ret.res.output.findings)
       IN /\ Len(cand) = 1
          /\ Has(tree.a, "net_kw") =>
                /\ cand[1].severity = Critical /\ cand[1].confidence = 85
                /\ out = cand
          /\ ~Has(tree.a, "net_kw") =>
                /\ cand[1].severity = Medium /\ cand[1].confidence = 60
                /\ out = <<>>

\* A microphone token without a network token: the candidate was dropped.
C17_Witness ==
    /\ MicCase /\ ~Has(tree.a, "net_kw")
    /\ Len(MicFindings(ret.cand)) = 1
    /\ MicFindings(ret.res.output.findings) = <<>>

\* C17 as stated: execute returns exactly one microphone_access finding,
\* Critical / 0.85 with a network token and Medium / 0.6 without.
C17_MicLadderReturned ==
    MicCase =>
       LET out == MicFindings(ret.res.output.findings)
       IN /\ Len(out) = 1
          /\ out[1].severity = (IF Has(tree.a, "net_kw") THEN Critical ELSE Medium)
          /\ out[1].confidence = (IF Has(tree.a, "net_kw") THEN 85 ELSE 60)


\* C18: for every symbolic link met in the walk whose target read_link
\* returns but canonicalize cannot resolve (a dangling link), execute of
\* the filesystem detector returns a symlink_broken finding with
\* confidence 0.7 and severity Low located at that link.
C18_BrokenSymlinkReported ==
    FsCase =>
       \A k \in 1..Len(tree.links) :
          (tree.links[k].read_link
             /\ ~canonicalize(tree, tree.links[k].target).ok) =>
             \E i \in 1..Len(FsFound("symlink_broken")) :
                /\ FsFound("symlink_broken")[i].location = tree.links[k].path
                /\ FsFound("symlink_broken")[i].confidence = 70
                /\ FsFound("symlink_broken")[i].severity = Low


\* C19: the walk depth of the filesystem detector is set by the caller:
\* when the params carry max_depth = d, no finding is located at an entry
\* deeper than d; and whatever follow_symlinks says, no finding is located
\* below a symbolic link.
C19_MaxDepthHonoured ==
    (FsCase /\ "max_depth" \in DOMAIN ret.params) =>
       \A i \in 1..Len(ret.res.output.findings) :
          \E k \in 1..Len(WalkDir(tree, Root, TreeDepth)) :
             LET e == WalkDir(tree, Root, TreeDepth)[k]
             IN /\ e.ok /\ e.path = ret.res.output.findings[i].location
                /\ e.depth <= ret.params.max_depth


\* The last operation ran the cipher detector on the file /t/a, which
\* holds one dimension token.
GridCase ==
    /\ ret.op = "invoke" /\ ret.skill = "cipher"
    /\ ret.params = path_only("/t/a")
    /\ Len(tree.a.grids) = 1

\* C20: for a token AxB or AxBxC the cipher detector emits power2_grid iff
\* every dimension is a positive power of two, and the reported
\* total_cells is the exact product of the dimensions, also when that
\* product does not fit in 64 bits.
C20_GridExactProduct ==
    GridCase =>
       LET dims == tree.a.grids[1]
           all_pow2 == \A i \in 1..Len(dims) : Cardinality(dims[i]) = 1
           exact == {SeqSum([i \in 1..Len(dims) |->
                               CHOOSE b \in dims[i] : TRUE])}
           found == SelectSeq(ret.res.output.findings,
                              LAMBDA f : f.finding_type = "power2_grid")
       IN /\ ret.res.ok
          /\ (found # <<>>) <=> all_pow2
          /\ found # <<>> =>
                /\ Len(found) = 1
                /\ found[1].value[Len(found[1].value)] = bit_string(exact)

\* The bytes a run-length encoded file stands for.
RECURSIVE Bytes(_)
Bytes(d) ==
    IF d = <<>> THEN <<>>
    ELSE [i \in 1..Head(d)[2] |-> Head(d)[1]] \o Bytes(Tail(d))

IendSignature == <<0, 0, 0, 0, 73, 69, 78, 68>>

\* The offsets at which the IEND signature occurs in the file /t/a.
IendOffsets ==
    LET bytes == Bytes(tree.a.data)
    IN {k \in 0..(Len(bytes) - 8) : SubSeq(bytes, k + 1, k + 8) = IendSignature}

\* The last operation ran the stego detector on the file /t/a.
StegoCase ==
    /\ ret.op = "invoke" /\ ret.skill = "stego"
    /\ ret.params = path_only("/t/a")
    /\ tree.a.data # <<>>

EofFound ==
    SelectSeq(ret.res.output.findings,
              LAMBDA f : f.finding_type = "eof_hidden_data")

WavCase ==
    /\ ret.op = "invoke" /\ ret.skill = "audio"
    /\ ret.params = path_only("/t/a")
    /\ tree.a.ext = "wav" /\ data_len(tree.a.data) > WavHeader

\* The number of maximal zero runs longer than 100 bytes among the first
\* 10,000 bytes after the header of /t/a: the places in that window where
\* a zero byte has no zero byte before it and 100 zero bytes after it.
LongZeroRuns ==
    LET bytes == Bytes(tree.a.data)
        window == SubSeq(bytes, WavHeader + 1,
                         Min(Len(bytes), WavHeader + ZeroRunWindow))
    IN Cardinality({i \in 1..Len(window) :
                      /\ window[i] = 0
                      /\ i > 1 => window[i - 1] # 0
                      /\ i + ZeroRunMin <= Len(window)
                      /\ \A j \in i..(i + ZeroRunMin) : window[j] = 0})

WavFound ==
    SelectSeq(ret.cand, LAMBDA f : f.finding_type = "audio_anomaly")

\* C22: for a .wav file longer than 44 bytes the number of zero runs the
\* audio detector computes is the number of maximal runs of more than 100
\* zero bytes among the first 10,000 bytes after the header, a run that
\* reaches the end of that window included, and an audio_anomaly candidate
\* (0.65, Medium) is produced iff that number is at least 6.
C22_WavZeroRuns ==
    WavCase =>
       /\ (WavFound # <<>>) <=> (LongZeroRuns >= 6)
       /\ WavFound # <<>> =>
             /\ Len(WavFound) = 1
             /\ WavFound[1].value = <<"WAV", LongZeroRuns>>
             /\ WavFound[1].confidence = 65 /\ WavFound[1].severity = Medium

\* The last operation ran the filesystem detector on /t.
ShotCase ==
    /\ ret.op = "invoke" /\ ret.skill = "filesystem"
    /\ ret.params = path_only(Root) /\ ret.res.ok

\* The paths of the walk of /t whose name matches the screenshot pattern.
Screenshots ==
    LET w == SelectSeq(filter_ok(WalkDir(tree, Root, FsMaxDepth)),
                       LAMBDA e : screenshot_is_match(tree, e.path))
    IN [i \in 1..Len(w) |-> w[i].path]

\* The path lies under a directory that carries one of the suspicious words.
UnderSuspiciousDir(p) ==
    \E i \in 1..(Len(components(tree, p)) - 1) :
       \E k \in 1..Len(components(tree, p)[i]) :
          to_lowercase(components(tree, p)[i][k]) \in suspicious_dirs

ShotFound ==
    SelectSeq(ret.res.output.findings,
              LAMBDA f : f.finding_type = "screenshot_collection")

\* C23: one execute of the filesystem detector emits at most one
\* screenshot_collection finding, emitted iff at least 5 entries match the
\* screenshot pattern; it carries the count and min(count, 5) sample
\* paths; its confidence is 0.9 iff one of those sample paths lies under a
\* suspicious directory and 0.75 otherwise; its severity is Critical iff
\* count > 20 or the suspicious-directory condition holds, else High.
C23_ScreenshotCollection ==
    ShotCase =>
       /\ Len(ShotFound) <= 1
       /\ (ShotFound # <<>>) <=> (Len(Screenshots) >= 5)
       /\ ShotFound # <<>> =>
             LET f == ShotFound[1]
                 samples == f.value[2]
                 suspicious == \E i \in 1..Len(samples) :
                                  UnderSuspiciousDir(samples[i])
             IN /\ f.value[1] = Len(Screenshots)
                /\ samples = SubSeq(Screenshots, 1, Min(Len(Screenshots), 5))
                /\ f.confidence = (IF suspicious THEN 90 ELSE 75)
                /\ f.severity = (IF f.value[1] > 20 \/ suspicious
                                 THEN Critical ELSE High)

\* The sum of a set of u64 values, exact.
RECURSIVE BitSum(_, _)
BitSum(f, keys) ==
    IF keys = {} THEN {}
    ELSE LET k == CHOOSE k \in keys : TRUE
         IN bit_add(f[k].value, BitSum(f, keys \ {k}))

\* A natural number as the set of its one-bit positions.
RECURSIVE NatBits(_)
NatBits(n) ==
    IF n = 0 THEN {}
    ELSE (IF n % 2 = 1 THEN {0} ELSE {}) \cup bit_shift(NatBits(n \div 2), 1)

UserWallets(wallets) == {w \in DOMAIN wallets : wallets[w].wallet_type = User}

\* The last instruction was a transfer between existing wallets.
TransferCase == ledger.txs > 0 /\ ledger.last.op = "transfer_user_tokens"

\* C24: after any sequence of initialize, mint_os_wallet, mint_user_wallet
\* and transfer_user_tokens, genesis.total_user_supply is the sum of value
\* over the User wallets and genesis.total_wallets is the number of
\* successful mint calls; a successful transfer moves exactly amount from
\* from_wallet.value to to_wallet.value and changes no total, and a
\* transfer fails with InvalidWalletType when either wallet is not a User
\* wallet.
C24_FixedUserSupply ==
    /\ ledger.genesis # <<>> =>
          /\ ledger.genesis[1].total_user_supply
                = BitSum(ledger.wallets, UserWallets(ledger.wallets))
          /\ ledger.genesis[1].total_wallets = NatBits(ledger.mints)
    /\ TransferCase /\ ledger.last.ok =>
          LET was == ledger.last.before
              from == ledger.last.from
              to == ledger.last.to
          IN /\ bit_add(ledger.wallets[from].value, ledger.last.amount)
                   = was.wallets[from].value
             /\ ledger.wallets[to].value
                   = bit_add(was.wallets[to].value, ledger.last.amount)
             /\ ledger.genesis = was.genesis
    /\ (TransferCase
        /\ (\E w \in {ledger.last.from, ledger.last.to} :
               ledger.last.before.wallets[w].wallet_type # User))
       => /\ ~ledger.last.ok
          /\ ledger.last.err \in {"InvalidWalletType",
                                  "ConstraintDuplicateMutableAccount"}

OsAddresses == {os_wallet(path) : path \in OsPaths}
UserAddresses == {user_wallet(user_id) : user_id \in UserIds}

\* C25: every wallet created by mint_os_wallet has wallet_type Os and
\* is_frozen = TRUE in every later state and its value never changes after
\* minting, whatever instructions follow (no transfer debits or credits
\* it); every wallet created by mint_user_wallet has wallet_type User and
\* is_frozen = FALSE.
C25_OsWalletsImmutable ==
    /\ [](\A w \in DOMAIN ledger.wallets :
            /\ w \in OsAddresses =>
                  ledger.wallets[w].wallet_type = Os /\ ledger.wallets[w].is_frozen
            /\ w \in UserAddresses =>
                  ledger.wallets[w].wallet_type = User /\ ~ledger.wallets[w].is_frozen)
    /\ [][\A w \in DOMAIN ledger.wallets \cap OsAddresses :
            w \in DOMAIN ledger'.wallets /\ ledger'.wallets[w] = ledger.wallets[w]]_vars

\* A transfer that named an OS wallet was refused and left it as minted.
C25_Witness ==
    /\ TransferCase
    /\ ledger.last.from \in OsAddresses /\ ledger.last.to \in UserAddresses
    /\ ~ledger.last.ok /\ ledger.last.err = "InvalidWalletType"
    /\ ledger.wallets[ledger.last.from] = ledger.last.before.wallets[ledger.last.from]

\* C26: transfer_user_tokens with amount greater than from_wallet.value
\* fails with the error InsufficientBalance and leaves from_wallet.value,
\* to_wallet.value and the genesis totals unchanged, so that no wallet
\* value wraps below zero; also when the token account passed as
\* from_token_account holds at least amount and when from_wallet and
\* to_wallet are the same wallet.
C26_InsufficientBalanceIsError ==
    (/\ TransferCase
     /\ \A w \in {ledger.last.from, ledger.last.to} :
           ledger.last.before.wallets[w].wallet_type = User
     /\ bit_lt(ledger.last.before.wallets[ledger.last.from].value,
               ledger.last.amount))
    => /\ ~ledger.last.ok
       /\ ledger.last.err = "InsufficientBalance"
       /\ ledger.wallets = ledger.last.before.wallets
       /\ ledger.genesis = ledger.last.before.genesis

\* The last operation invoked a built-in skill on a directory with the
\* parameter `recursive` omitted, and the skill's schema declares it.
DefaultCase ==
    /\ ret.op = "invoke" /\ ret.skill \in Range(BuiltIn)
    /\ ret.params \in {path_only(Root), path_only("/t/d")}
    /\ "recursive" \in DOMAIN properties(ret.skill)

\* C27: for every built-in skill and every parameter for which the
\* exported schema declares a default, execute with the parameter omitted
\* behaves as execute with the declared default passed explicitly; for
\* `recursive`, scanning a directory with the parameter omitted returns what
\* scanning it with the schema's declared default returns.
C27_DeclaredDefaultsEffective ==
    DefaultCase =>
       \E r \in execute(ret.skill, tree,
                        Params("string", ret.params.path, "bool",
                               schema(ret.skill).parameters.properties.recursive.default)) :
          r.res = ret.res


(***************************** C28 *****************************************)
\* The findings of the Ok results of a scan_all list, in list order.
OkFindings(pairs) ==
    LET RECURSIVE go(_)
        go(i) == IF i > Len(pairs) THEN <<>>
                 ELSE (IF pairs[i].res.ok THEN pairs[i].res.output.findings
                       ELSE <<>>) \o go(i + 1)
    IN go(1)

Times(s, x) == Cardinality({i \in 1..Len(s) : s[i] = x})

SameMultiset(a, b) ==
    /\ Len(a) = Len(b)
    /\ \A x \in Range(a) \cup Range(b) : Times(a, x) = Times(b, x)

\* The findings of one skill keep their order among those of one
\* (severity, confidence).
KeepsOrder(sorted, pairs) ==
    \A i \in 1..Len(pairs) :
       pairs[i].res.ok =>
          LET own == pairs[i].res.output.findings
          IN \A f \in Range(own) :
                LET same(g) == /\ g.severity = f.severity
                               /\ g.confidence = f.confidence
                               /\ g \in Range(own)
                IN SelectSeq(sorted, same) = SelectSeq(own, same)

\* A scan_path call followed by a scan_all call on the default registry
\* for the same path, both returning.
ScanPair ==
    /\ ret.op = "scan_path" /\ ret.ok
    /\ ret'.op = "scan_all" /\ ret'.ok
    /\ ret'.name = ret.name
    /\ skills = create_default_registry

\* C28: the findings scan_path returns for a path are, as a multiset, the
\* findings of the Ok results that scan_all returns for that path on the
\* default registry, and the findings of one skill keep their relative
\* order among findings of equal severity and confidence.
C28_ScanPathAgreesWithScanAll ==
    [][ScanPair =>
          /\ SameMultiset(ret.findings, OkFindings(ret'.pairs))
          /\ KeepsOrder(ret.findings, ret'.pairs)]_vars


(***************************** C29 *****************************************)
\* The last operation ran the injection detector and returned its output.
InjectionCase ==
    /\ ret.op = "invoke" /\ ret.skill = "injection"
    /\ ret.res.ok

HidFound ==
    {f \in Range(ret.res.output.findings) : f.finding_type = "hid_device_access"}

KeyboardFoundAt(location) ==
    \E g \in Range(ret.res.output.findings) :
       g.finding_type = "keyboard_injection" /\ g.location = location

\* C29: in every output of the injection detector, a hid_device_access
\* finding is Critical with confidence 0.85 when the same output holds a
\* keyboard_injection finding for the same file, and High with confidence
\* 0.7 otherwise.
C29_HidKeyboardConsistency ==
    InjectionCase =>
       \A f \in HidFound :
          IF KeyboardFoundAt(f.location)
          THEN f.severity = Critical /\ f.confidence = 85
          ELSE f.severity = High /\ f.confidence = 70

\* One directory scan reports HID access with keyboard emulation for one
\* file and plain HID access for another.
C29_Witness ==
    /\ InjectionCase
    /\ \E f, g \in HidFound :
          /\ f.location # g.location
          /\ KeyboardFoundAt(f.location) /\ ~KeyboardFoundAt(g.location)
          /\ f.severity = Critical /\ g.severity = High


(***************************** C30 *****************************************)
\* No command of the desktop backend is between two of its steps.
Quiescent ==
    \A c \in Commands : app.commands[c].pc \in {"idle", "done"}

\* Every entry that process_interaction pushed was generated from the
\* entry that precedes it in the chain (from None at the head).
ChainLinked ==
    \A i \in 1..Len(app.xor_chain) :
       app.made[i].op = "process_interaction" =>
          app.made[i].previous
             = (IF i = 1 THEN <<>> ELSE <<app.xor_chain[i - 1]>>)

\* C30: whatever the interleaving of the commands, each entry that
\* process_interaction appended to xor_chain was generated with previous
\* equal to the entry just before it, and once the commands have returned
\* the chain has one entry per completed initialize or process_interaction
\* and graph_nodes counts the completed process_interaction calls.
C30_XorChainLinked ==
    /\ ChainLinked
    /\ Quiescent =>
          /\ Len(app.xor_chain)
                = app.completed.initialize + app.completed.process_interaction
          /\ app.graph_nodes = app.completed.process_interaction

=============================================================================
